---- MODULE Spec2Model ----
(***************************************************************************)
(* A model of the CanvasPal chat routes (src/unnamed/part_002).            *)
(*                                                                         *)
(* part_002 holds the successive versions of src/app/api/chat/route.ts:    *)
(*   lines   1-356   the streaming route  (tool plan, streamed summary)    *)
(*   lines 358-714   the retry-loop route (execStep / toolsLog / stepsLog) *)
(*                                                                         *)
(* TEXT.  A text is a sequence of tokens.  A token is a maximal piece of   *)
(* the real string that the scanners of the code treat alike: a brace, a   *)
(* run of whitespace, a piece of prose, a piece of a CONTEXT marker, or a  *)
(* JSON member (with the commas between members left out).  Concatenating  *)
(* the tokens gives the string.                                            *)
(***************************************************************************)
EXTENDS Integers, Sequences, FiniteSets, TLC

LBrace == "{"
RBrace == "}"
Space  == " "
Prose  == "ok"

\* The markers of /<!--CONTEXT[\s\S]*?CONTEXT-->/ in pieces, so that a marker
\* can also be formed across a removed region.
OpenMark  == <<"<!--", "CONTEXT">>
CloseMark == <<"CONTEXT", "-->">>

(***************************************************************************)
(* JSON values, tagged with their JavaScript type.                         *)
(***************************************************************************)
JUndef   == [t |-> "undefined", v |-> 0]
JNull    == [t |-> "null", v |-> 0]
JStr(s)  == [t |-> "string", v |-> s]
JNum(n)  == [t |-> "number", v |-> n]
JBool(b) == [t |-> "boolean", v |-> b]
JArr(a)  == [t |-> "array", v |-> a]
JObj(o)  == [t |-> "object", v |-> o]

\* The empty object: a function with the empty domain.
EmptyObj == [k \in {} |-> JUndef]

\* obj.key of JavaScript: undefined when the key is absent.
Get(obj, key) == IF key \in DOMAIN obj THEN obj[key] ELSE JUndef

\* obj with key set to val (a repeated key of a JSON text: the last one wins).
Put(obj, key, val) ==
    [k \in (DOMAIN obj) \cup {key} |-> IF k = key THEN val ELSE obj[k]]

\* JavaScript truthiness, as used by `if (x)` and `a || b`.
Truthy(j) ==
    CASE j.t = "undefined" -> FALSE
      [] j.t = "null"      -> FALSE
      [] j.t = "string"    -> j.v # <<>>
      [] j.t = "number"    -> j.v # 0
      [] j.t = "boolean"   -> j.v
      [] OTHER             -> TRUE

\* a ?? b of JavaScript.
Coalesce(a, b) == IF a.t \in {"undefined", "null"} THEN b ELSE a

(***************************************************************************)
(* stripContext / stripCtx: s.replace(/<!--CONTEXT[\s\S]*?CONTEXT-->/g, '')*)
(***************************************************************************)
HasAt(s, i, m) ==
    /\ i + Len(m) - 1 <= Len(s)
    /\ SubSeq(s, i, i + Len(m) - 1) = m

\* The first position >= j where the closing marker starts, or 0.
FindClose(s, j) ==
    LET hits == {k \in j..Len(s) : HasAt(s, k, CloseMark)}
    IN  IF hits = {} THEN 0 ELSE CHOOSE k \in hits : \A h \in hits : k <= h

RECURSIVE StripFrom(_, _)
StripFrom(s, i) ==
    IF i > Len(s) THEN <<>>
    ELSE IF HasAt(s, i, OpenMark) /\ FindClose(s, i + Len(OpenMark)) # 0
         THEN StripFrom(s, FindClose(s, i + Len(OpenMark)) + Len(CloseMark))
         ELSE <<s[i]>> \o StripFrom(s, i + 1)

stripContext(s) == StripFrom(s, 1)

stripCtx(s) == StripFrom(s, 1)

(***************************************************************************)
(* String.prototype.trim                                                   *)
(***************************************************************************)
RECURSIVE TrimLeft(_)
TrimLeft(s) ==
    IF s # <<>> /\ Head(s) = Space THEN TrimLeft(Tail(s)) ELSE s

RECURSIVE TrimRight(_)
TrimRight(s) ==
    IF s # <<>> /\ s[Len(s)] = Space
    THEN TrimRight(SubSeq(s, 1, Len(s) - 1)) ELSE s

Trim(s) == TrimRight(TrimLeft(s))

(***************************************************************************)
(* The extractors.  Positions are 1-based here; start = 0 is the code's    *)
(* start = -1.  A result is [found, str]: found = FALSE is null.           *)
(***************************************************************************)
NotFound == [found |-> FALSE, str |-> <<>>]
Found(s) == [found |-> TRUE, str |-> s]

\* retry-loop route
RECURSIVE FirstObjectScan(_, _, _, _)
FirstObjectScan(s, i, depth, start) ==
    IF i > Len(s) THEN NotFound
    ELSE IF s[i] = LBrace
         THEN FirstObjectScan(s, i + 1, depth + 1,
                              IF depth = 0 THEN i ELSE start)
    ELSE IF s[i] = RBrace
         THEN IF depth - 1 = 0 /\ start >= 1
              THEN Found(SubSeq(s, start, i))
              ELSE FirstObjectScan(s, i + 1, depth - 1, start)
    ELSE FirstObjectScan(s, i + 1, depth, start)

\* (an extractor that runs from the first opening brace to the last closing
\* brace)
firstObjectGreedy(s) ==
    LET opens  == {k \in 1..Len(s) : s[k] = LBrace}
        closes == {k \in 1..Len(s) : s[k] = RBrace}
        first  == CHOOSE k \in opens : \A h \in opens : k <= h
        last   == CHOOSE k \in closes : \A h \in closes : k >= h
    IN  IF opens = {} \/ closes = {} THEN NotFound
        ELSE IF last < first THEN NotFound
        ELSE Found(SubSeq(s, first, last))

firstObject(s) == FirstObjectScan(s, 1, 0, 0)

\* streaming route
RECURSIVE FirstJsonScan(_, _, _, _)
FirstJsonScan(txt, i, depth, start) ==
    IF i > Len(txt) THEN NotFound
    ELSE IF txt[i] = LBrace
         THEN FirstJsonScan(txt, i + 1, depth + 1,
                            IF depth = 0 THEN i ELSE start)
    ELSE IF txt[i] = RBrace
         THEN IF depth - 1 = 0
              THEN Found(SubSeq(txt, start, i))
              ELSE FirstJsonScan(txt, i + 1, depth - 1, start)
    ELSE FirstJsonScan(txt, i + 1, depth, start)

firstJson(txt) == FirstJsonScan(txt, 1, 0, 0)

(***************************************************************************)
(* JSON.parse on the token texts.  Member tokens stand for one             *)
(* "key":value member each; "params:" is followed by an object and         *)
(* "steps:[" by objects up to "]".  Anything else between braces (prose,   *)
(* marker pieces) makes the text invalid, as does an unclosed brace.       *)
(***************************************************************************)
StepA    == JStr(<<"a">>)
StepB    == JStr(<<"b">>)
ToolName == JStr(<<"get_courses">>)
BadTool  == JStr(<<"no_such_tool">>)
ResultR  == JStr(<<"r">>)

MemberTokens ==
    {"steps:[a]", "steps:[a,b]", "steps:[]", "steps:5", "steps:null",
     "tool:get_courses", "tool:get_assignments", "tool:no_such_tool",
     "tool:''", "result:r", "done:true", "done:false"}

MemberKey(tok) ==
    CASE tok \in {"steps:[a]", "steps:[a,b]", "steps:[]", "steps:5",
                  "steps:null"}                                -> "steps"
      [] tok \in {"tool:get_courses", "tool:get_assignments",
                  "tool:no_such_tool", "tool:''"}              -> "tool"
      [] tok = "result:r"                                      -> "result"
      [] OTHER                                                 -> "done"

MemberVal(tok) ==
    CASE tok = "steps:[a]"         -> JArr(<<StepA>>)
      [] tok = "steps:[a,b]"       -> JArr(<<StepA, StepB>>)
      [] tok = "steps:[]"          -> JArr(<<>>)
      [] tok = "steps:5"           -> JNum(5)
      [] tok = "steps:null"        -> JNull
      [] tok = "tool:get_courses"  -> ToolName
      [] tok = "tool:get_assignments" -> JStr(<<"get_assignments">>)
      [] tok = "tool:no_such_tool" -> BadTool
      [] tok = "tool:''"           -> JStr(<<>>)
      [] tok = "result:r"          -> ResultR
      [] tok = "done:true"         -> JBool(TRUE)
      [] OTHER                     -> JBool(FALSE)

ParseFail == [ok |-> FALSE, next |-> 0, val |-> JUndef]
ParseOk(next, val) == [ok |-> TRUE, next |-> next, val |-> val]

RECURSIVE SkipWs(_, _)
SkipWs(s, i) == IF i <= Len(s) /\ s[i] = Space THEN SkipWs(s, i + 1) ELSE i

RECURSIVE ParseObjectAt(_, _)
RECURSIVE ParseMembers(_, _, _)
RECURSIVE ParseElems(_, _, _)

ParseObjectAt(s, i) ==
    IF i <= Len(s) /\ s[i] = LBrace
    THEN ParseMembers(s, i + 1, EmptyObj)
    ELSE ParseFail

ParseMembers(s, i, acc) ==
    IF i > Len(s) THEN ParseFail
    ELSE IF s[i] = RBrace THEN ParseOk(i + 1, JObj(acc))
    ELSE IF s[i] = Space THEN ParseMembers(s, i + 1, acc)
    ELSE IF s[i] \in MemberTokens
         THEN ParseMembers(s, i + 1, Put(acc, MemberKey(s[i]), MemberVal(s[i])))
    ELSE IF s[i] = "params:"
         THEN LET r == ParseObjectAt(s, SkipWs(s, i + 1))
              IN  IF r.ok THEN ParseMembers(s, r.next, Put(acc, "params", r.val))
                  ELSE ParseFail
    ELSE IF s[i] = "steps:["
         THEN LET r == ParseElems(s, i + 1, <<>>)
              IN  IF r.ok THEN ParseMembers(s, r.next, Put(acc, "steps", r.val))
                  ELSE ParseFail
    ELSE ParseFail

ParseElems(s, i, acc) ==
    IF i > Len(s) THEN ParseFail
    ELSE IF s[i] = "]" THEN ParseOk(i + 1, JArr(acc))
    ELSE IF s[i] = Space THEN ParseElems(s, i + 1, acc)
    ELSE LET r == ParseObjectAt(s, i)
         IN  IF r.ok THEN ParseElems(s, r.next, Append(acc, r.val))
             ELSE ParseFail

\* JSON.parse(s) for a text that starts with "{": [ok, val]; ok = FALSE is
\* the SyntaxError.
JsonParse(s) ==
    LET r == ParseObjectAt(s, 1)
    IN  IF r.ok /\ SkipWs(s, r.next) = Len(s) + 1
        THEN [ok |-> TRUE, val |-> r.val]
        ELSE [ok |-> FALSE, val |-> JUndef]

(***************************************************************************)
(* Bounds of the exploration.                                              *)
(***************************************************************************)
\* Tool executions explored per request (the code itself sets no limit).
MaxToolRuns == 2
\* Deltas explored per streamed summary.
MaxDeltas == 2

(***************************************************************************)
(* What the outside world can answer.                                      *)
(***************************************************************************)
\* A response of the model backend to one chat-completions request.
\*   http_error    res.ok is false
\*   bad_json      the body is not JSON
\*   no_choices    the JSON has no choices[0]
\*   null_content  choices[0].message.content is null
\*   read_failed   a read of the streamed body is rejected
\*   empty         choices[0].message.content is ""
\*   ok            choices[0].message.content is the text `content`
LLMFailure(kind) == [kind |-> kind, content |-> <<>>]
LLMText(content) ==
    [kind |-> IF content = <<>> THEN "empty" ELSE "ok", content |-> content]

LLMFailures ==
    {LLMFailure(k) : k \in {"http_error", "bad_json", "no_choices", "null_content"}}

HiddenRegion == OpenMark \o <<Prose>> \o CloseMark

\* Plan replies: prose, whitespace or a hidden region around an object (or
\* around nothing).
PlanCores ==
    {<<>>,
     <<LBrace, "steps:[a]", RBrace>>,
     <<LBrace, "steps:[a,b]", RBrace>>,
     <<LBrace, "steps:[]", RBrace>>,
     <<LBrace, "steps:5", RBrace>>,
     <<LBrace, "steps:null", RBrace>>,
     <<LBrace, RBrace>>,
     <<LBrace, Prose, RBrace>>,
     <<LBrace, "steps:[a]">>,
     <<LBrace, "steps:[", LBrace, "tool:get_courses", RBrace, "]", RBrace>>,
     <<LBrace, "steps:[", LBrace, "tool:get_assignments", "params:", LBrace, RBrace,
       RBrace, LBrace, "tool:no_such_tool", RBrace, "]", RBrace>>}

PlanPrefixes == {<<>>, <<Prose, Space>>, <<Space>>, HiddenRegion}
PlanSuffixes == {<<>>, <<Space>>}

PlanTexts ==
    {p \o c \o x : p \in PlanPrefixes, c \in PlanCores, x \in PlanSuffixes}

PlanResponses == LLMFailures \cup {LLMText(t) : t \in PlanTexts}

\* Step replies of the retry-loop route.
StepCores ==
    {<<>>,
     <<LBrace, "tool:get_courses", RBrace>>,
     <<LBrace, "tool:get_courses", "result:r", "done:true", RBrace>>,
     <<LBrace, "tool:no_such_tool", RBrace>>,
     <<LBrace, "tool:''", "result:r", RBrace>>,
     <<LBrace, "result:r", RBrace>>,
     <<LBrace, "result:r", "done:true", RBrace>>,
     <<LBrace, "result:r", "done:false", RBrace>>,
     <<LBrace, RBrace>>,
     <<LBrace, Prose, RBrace>>,
     <<LBrace, "result:r">>}

StepPrefixes == {<<>>, <<Space, Prose>>, HiddenRegion \o <<Space>>}

StepTexts == {p \o c : p \in StepPrefixes, c \in StepCores}

StepResponses == LLMFailures \cup {LLMText(t) : t \in StepTexts}

SummaryText == <<"You are enrolled in Algorithms.">>

SummaryResponses == LLMFailures \cup {LLMText(SummaryText), LLMText(<<>>)}

\* The names of the executor's operations: the tools of TOOL_LIST (the list
\* of the retry-loop route's prompts leaves get_syllabus out).
Vocabulary ==
    {"get_courses", "get_all_courses", "get_assignments",
     "get_assignment_details", "get_announcements", "get_submission",
     "get_course_files", "get_people_in_course", "get_todo_list",
     "get_unsubmitted_assignments", "get_assignments_with_grades",
     "get_course_grade", "get_course_modules", "get_module_description",
     "get_syllabus"}

InVocabulary(tool) ==
    tool.t = "string" /\ Len(tool.v) = 1 /\ tool.v[1] \in Vocabulary

\* What running a tool can give.
\*   json      the tool printed (or returned) the JSON value of its operation
\*   not_json  the output is not JSON
\*   failed    the process exits with an error / the tool endpoint answers
\*             with a status that is not a success
\*   error     the executor answers, as JSON, with a structured error value
CourseList == JArr(<<JStr(<<"Algorithms">>)>>)
RawOutput  == <<"Traceback">>

ToolOutcomes ==
    {[kind |-> "json", value |-> CourseList, raw |-> <<>>],
     [kind |-> "not_json", value |-> JUndef, raw |-> RawOutput],
     [kind |-> "failed", value |-> JUndef, raw |-> <<>>]}

\* How the executor can refuse a name: it exits with an error (a status that
\* is not a success), or it answers with a structured error value.
RefusedOutcomes ==
    {[kind |-> "failed", value |-> JUndef, raw |-> <<>>],
     [kind |-> "error", value |-> JObj([error |-> JStr(<<"Unknown tool">>)]),
      raw |-> <<>>]}

\* The tool executor (tool_caller.py, the tool endpoint): a name of the
\* vocabulary runs its operation, with any of the outcomes of an operation;
\* any other name runs no operation and is refused, in either way.
Dispatch(tool) ==
    IF InVocabulary(tool) THEN ToolOutcomes ELSE RefusedOutcomes

(***************************************************************************)
(* Results of calls that may throw.                                        *)
(***************************************************************************)
Threw(msg)  == [threw |-> TRUE, msg |-> msg, value |-> JUndef]
Return(val) == [threw |-> FALSE, msg |-> <<>>, value |-> val]

\* v.length on a value that is undefined or null: the TypeError, which names
\* the value.
LengthTypeError(v) ==
    IF v.t = "undefined"
    THEN <<"Cannot read properties of undefined (reading 'length')">>
    ELSE <<"Cannot read properties of null (reading 'length')">>

(***************************************************************************)
(* The retry-loop route                                                    *)
(***************************************************************************)
\* callLLM: throws on a non-success response, on a body that is not JSON and
\* on a missing choices[0]; returns message.content as it is otherwise.
callLLM(resp) ==
    CASE resp.kind = "http_error"   -> Threw(<<"LLM 500: upstream error">>)
      [] resp.kind = "bad_json"     -> Threw(<<"Unexpected token < in JSON">>)
      [] resp.kind = "no_choices"
            -> Threw(<<"Cannot read properties of undefined (reading '0')">>)
      [] resp.kind = "null_content" -> Return(JNull)
      [] OTHER                      -> Return(JStr(resp.content))

\* (runTool without its try / catch around JSON.parse)
runToolNoCatch(tool, params, outcome) ==
    CASE outcome.kind = "failed" -> Threw(<<"Command failed: python3 tool_caller.py">>)
      [] outcome.kind \in {"json", "error"} -> Return(outcome.value)
      [] OTHER                   -> Threw(<<"Unexpected token T in JSON">>)
\* runTool: execSync throws when the process fails; output that is not JSON
\* becomes { error, raw }.
runTool(tool, params, outcome) ==
    CASE outcome.kind = "failed" -> Threw(<<"Command failed: python3 tool_caller.py">>)
      [] outcome.kind \in {"json", "error"} -> Return(outcome.value)
      [] OTHER ->
            Return(JObj([error |-> JStr(<<"Invalid JSON from ">> \o tool.v),
                         raw   |-> JStr(outcome.raw)]))

\* getPlan: [threw, msg, steps, direct]; steps / direct are JUndef when the
\* returned object has no such field.
PlanThrew(msg)    == [threw |-> TRUE, msg |-> msg, steps |-> JUndef, direct |-> JUndef]
PlanSteps(st)     == [threw |-> FALSE, msg |-> <<>>, steps |-> st, direct |-> JUndef]
PlanDirect(text)  == [threw |-> FALSE, msg |-> <<>>, steps |-> JUndef, direct |-> JStr(text)]

getPlan(resp) ==
    LET r == callLLM(resp) IN
    IF r.threw THEN PlanThrew(r.msg)
    ELSE IF r.value.t # "string" THEN PlanThrew(LengthTypeError(r.value))
    ELSE
      LET planTxt == r.value.v
          objStr  == firstObject(planTxt)
          parsed  == JsonParse(objStr.str)
          st      == Get(parsed.val.v, "steps")
      IN  IF /\ objStr.found
             /\ parsed.ok
             /\ st.t = "array"
             /\ Len(st.v) # 0
          THEN PlanSteps(st)
          ELSE PlanDirect(Trim(stripContext(planTxt)))

\* execStep: [threw, msg, value]; value is the ExecResult object.
\* (a fallback that does not mark the step done)
FallbackResultNotDone(raw) ==
    [result |-> JStr(Trim(stripContext(raw))), done |-> JBool(FALSE)]
FallbackResult(raw) ==
    [result |-> JStr(Trim(stripContext(raw))), done |-> JBool(TRUE)]

execStep(resp) ==
    LET r == callLLM(resp) IN
    IF r.threw THEN r
    ELSE IF r.value.t # "string" THEN Threw(LengthTypeError(r.value))
    ELSE
      LET raw     == r.value.v
          jsonStr == firstObject(raw)
          parsed  == JsonParse(jsonStr.str)
      IN  IF jsonStr.found /\ parsed.ok
          THEN Return(parsed.val)
          ELSE Return(JObj(FallbackResult(raw)))

(***************************************************************************)
(* The conversation history: what the client sends and what each model     *)
(* call is given.                                                          *)
(***************************************************************************)
Msg(role, content) == [role |-> role, content |-> content]

\* const MAX_HISTORY = 10;
MAX_HISTORY == 10

\* Earlier turns of the conversations explored.
MaxTurns == 5

\* s.slice(-n)
SliceLast(s, n) == IF Len(s) <= n THEN s ELSE SubSeq(s, Len(s) - n + 1, Len(s))

\* history.map(m => ({ role: m.role, content: stripContext(m.content) }))
cleanHist(history) ==
    [k \in 1..Len(history) |->
        Msg(history[k].role, stripContext(history[k].content))]

\* messages.slice(-MAX_HISTORY).map(m => ({ role, content: stripCtx(content) }))
StreamHistory(msgs) ==
    LET recent == SliceLast(msgs, MAX_HISTORY)
    IN  [k \in 1..Len(recent) |-> Msg(recent[k].role, stripCtx(recent[k].content))]

\* The history argument of the model call of a phase: the streaming route
\* and the older route pass their prepared history to every call; the
\* retry-loop route passes cleanHist in getPlan and execStep, and messages
\* itself to the summary call.
HistoryGiven(r, phase, msgs) ==
    IF r \in {"stream", "older"} THEN StreamHistory(msgs)
    ELSE IF phase = "summary" THEN msgs
    ELSE cleanHist(msgs)

\* The serialised logs inside the hidden block of a summary.
LogsToken == "JSON(ctx)"
HiddenBlock == OpenMark \o <<"\n", LogsToken, "\n">> \o CloseMark

\* The text of the summary event an earlier request of the route ended with:
\* the retry-loop route appends the hidden block of its logs.
EarlierSummary(r) ==
    IF r = "retry" THEN SummaryText \o <<"\n\n">> \o HiddenBlock ELSE SummaryText

\* page.tsx, toDisplay: a string as it is, null / undefined as '', anything
\* else serialised.
toDisplay(c) ==
    CASE c.t = "string"               -> c.v
      [] c.t \in {"null", "undefined"} -> <<>>
      [] OTHER                        -> <<"JSON(c)">>

\* page.tsx, JSON.parse(chunk.slice(6)) on the chunk `data: [DONE]`: the
\* message of the SyntaxError.
SentinelParseError == <<"Unexpected token 'D', \"[DONE]\" is not valid JSON">>

SystemMsg == Msg("system", <<"{courses,todos}">>)
UserMsg(k) == Msg("user", <<"question", ToString(k)>>)
\* The to-do button: a question with a hidden block of its own.
ToDoMsg ==
    Msg("user", <<"Show me the details">> \o OpenMark \o <<"JSON(todo)">> \o CloseMark)

\* The assistant message the page holds once the summary event is read.
SummaryShown(r) == Msg("assistant", toDisplay(JStr(EarlierSummary(r))))

\* The assistant message the page holds when a turn is over.  The page parses
\* every data chunk: the sentinel that ends the retry-loop route's stream is
\* no JSON, and the catch of send puts the error text in the place of the
\* summary.  The other routes end their stream with the summary event.
TurnEnd(r) ==
    IF r = "retry" THEN Msg("assistant", <<"(!) ">> \o SentinelParseError)
    ELSE SummaryShown(r)

\* The page's messages after n finished turns: the user message and the
\* assistant message, per turn.
RECURSIVE Stored(_, _)
Stored(n, r) ==
    IF n = 0 THEN <<>> ELSE Stored(n - 1, r) \o <<UserMsg(n), TurnEnd(r)>>

\* The page's messages after a reload during turn n, between the read of the
\* summary event and the read of the next chunk: every render writes the
\* messages to sessionStorage, and the page restores them when it mounts.
Restored(n, r) == Stored(n - 1, r) \o <<UserMsg(n), SummaryShown(r)>>

\* page.tsx, send: history = [systemMsg, ...messages, userMsg]
ClientHistory(stored, userMsg) == <<SystemMsg>> \o stored \o <<userMsg>>

FirstRequest == ClientHistory(<<>>, UserMsg(1))

Histories(r) ==
    {ClientHistory(Stored(n, r), UserMsg(n + 1)) : n \in {0, 1, MaxTurns - 1, MaxTurns}}
        \cup {ClientHistory(Restored(1, r), UserMsg(2)),
              ClientHistory(<<>>, ToDoMsg)}

\* The state of the cancellation: not cancelled, or cancelled when `calls`
\* model calls, `runs` tool executions and `events` stream writes had happened.
NotCancelled == [is |-> FALSE, calls |-> 0, runs |-> 0, events |-> 0]

(***************************************************************************)
(* State of one chat request.                                              *)
(***************************************************************************)
VARIABLES
    route,      \* "retry" | "stream" | "older": which version of the route
                \* serves it
    pc,         \* where the handler is suspended: "start", "plan", "step",
                \* "tool", "timer", "summary", "stream", or "closed" after
                \* ctrl.close()
    steps,      \* the plan (a JSON value), JUndef before planning
    i,          \* the loop index of the step loop
    toolsLog,   \* retry-loop route: ToolLogEntry[]
    stepsLog,   \* retry-loop route: StepLogEntry[]; streaming route: log
    full,       \* streaming route: the summary text accumulated so far
    out,        \* what has been enqueued on the response stream, in order
    calls,      \* history: the model calls issued, with what their prompt embeds
    toolRuns,   \* history: the tool executions started, with their outcome
    replies,    \* history: every answer to a model call and how it was taken
    lastReply,  \* history: the latest answer to a model call, with its text
    messages,   \* the messages of the request body (the client's history)
    cancelled,  \* whether the client has cancelled, and what had happened by then
    apiKey,     \* whether the model credential is configured (process.env)
    input,      \* a text handed to the extractors and sanitizers on their own
    result,     \* what they returned for it
    other,      \* the state of a second request's handler, while it is not running
    running,    \* which of the two requests the handler variables belong to
    client      \* the state of the chat page

\* The state outside the request handler.
otherVars == <<input, result, other, running, client>>

\* The state of the request handler (and the process's environment).
handlerVars == <<route, pc, steps, i, toolsLog, stepsLog, full, out, calls,
                 toolRuns, replies, lastReply, messages, cancelled, apiKey>>

vars == <<route, pc, steps, i, toolsLog, stepsLog, full, out, calls,
          toolRuns, replies, lastReply, messages, cancelled, apiKey, otherVars>>

\* The credential fields of the request body: the client sends canvasUrl and
\* canvasApiKey with every chat request.
RequestCredentials ==
    [t |-> "object", v |-> [canvasUrl |-> "url", canvasApiKey |-> "key"]]

\* The credentials the routes hand to the tool executor.  Neither route reads
\* canvasUrl or canvasApiKey from the body: the streaming route calls
\* runTool(tool, params) without the optional third argument, the retry-loop
\* route writes {tool, params} to the executor's standard input.
CredentialsGiven == JUndef

\* The events of the stream.
Status(message, n, of) ==
    [type |-> "status", message |-> message, n |-> n, of |-> of]
PlanEvent(plan) == [type |-> "plan", plan |-> plan]
\* (a step event numbered from 1, as the status message is)
StepEventOneBased(index, step, output) ==
    [type |-> "step", index |-> index + 1, step |-> step, output |-> output]
StepEvent(index, step, output) ==
    [type |-> "step", index |-> index, step |-> step, output |-> output]
ChunkEvent(delta) == [type |-> "summary_chunk", delta |-> delta]
\* ctx is what the hidden block of the text serialises (the token "JSON(ctx)").
SummaryEvent(text, ctx, error) ==
    [type |-> "summary", summary |-> text, ctx |-> ctx,
     complete_all |-> TRUE, error |-> error]
\* data: [DONE]
Sentinel == [type |-> "[DONE]"]

NoCtx == [stepsLog |-> <<>>, toolsLog |-> <<>>]

\* `(!) ` stands for the warning sign the routes put before the message.
ErrorText(msg) == <<"(!) ">> \o msg

\* (a prompt built from the tool log as it was before the latest result)
CallStaleToolsLog(phase, index, tl, sl) ==
    [phase |-> phase, index |-> index,
     toolsLog |-> IF tl = <<>> THEN tl ELSE SubSeq(tl, 1, Len(tl) - 1),
     stepsLog |-> sl,
     history |-> HistoryGiven(route, phase, messages)]
\* The model calls, as the history records them.
Call(phase, index, tl, sl) ==
    [phase |-> phase, index |-> index, toolsLog |-> tl, stepsLog |-> sl,
     history |-> HistoryGiven(route, phase, messages)]

\* The answers to model calls, as the history records them: the phase and
\* index of the call, the kind of response, and how the handler took it:
\* "threw", "direct", "plan", "tool", "final" (a parsed non-tool reply),
\* "fallback" (a reply wrapped as a result) or "summary".
Reply(phase, index, resp, kind, done) ==
    [phase |-> phase, index |-> index, resp |-> resp.kind, kind |-> kind,
     done |-> done]

NoReply == LLMFailure("none")

NumSteps == Len(steps.v)

\* Nothing returned yet.
NoResult == [op |-> "none"]

\* No second request, no page.
NoRequest == [pc |-> "none"]
NoClient == [pc |-> "none"]

\* (a log that takes its new entry at the front)
PushFront(log, entry) == <<entry>> \o log
\* toolsLog.push(entry), stepsLog.push(entry), log.push(entry)
Push(log, entry) == Append(log, entry)

Init ==
    /\ route \in {"retry", "stream", "older"}
    /\ pc = "start"
    /\ steps = JUndef
    /\ i = 0
    /\ toolsLog = <<>>
    /\ stepsLog = <<>>
    /\ full = <<>>
    /\ out = <<>>
    /\ calls = <<>>
    /\ toolRuns = <<>>
    /\ replies = <<>>
    /\ lastReply = NoReply
    /\ messages = FirstRequest
    /\ cancelled = NotCancelled
    /\ apiKey \in BOOLEAN
    /\ input = <<>>
    /\ result = NoResult
    /\ other = NoRequest
    /\ running = 1
    /\ client = NoClient

(***************************************************************************)
(* Retry-loop route: POST, lines 639-714.  One action per resumption of    *)
(* the handler; each runs to the next await or to ctrl.close().            *)
(***************************************************************************)
\* (a catch that closes the stream without the summary event)
RetryCatchSilent(sofar, msg) ==
    /\ out' = Append(sofar, Sentinel)
    /\ pc' = "closed"
\* catch: the error summary, the sentinel, close.
RetryCatch(sofar, msg) ==
    /\ out' = sofar \o <<SummaryEvent(ErrorText(msg), NoCtx, TRUE), Sentinel>>
    /\ pc' = "closed"

\* (a summary call whose prompt leaves the step log out)
RetrySummaryCallNoLog(sofar, sl) ==
    /\ out' = Append(sofar, Status("Finalising", 0, 0))
    /\ calls' = Append(calls, Call("summary", 0, <<>>, <<>>))
    /\ pc' = "summary"
\* After the loop: the summary call.
RetrySummaryCall(sofar, sl) ==
    /\ out' = Append(sofar, Status("Finalising", 0, 0))
    /\ calls' = Append(calls, Call("summary", 0, <<>>, sl))
    /\ pc' = "summary"

\* (a loop that starts the call of the next step without awaiting this one)
RetryStepCallNoAwait(sofar, st, idx, tl, sl) ==
    IF idx < Len(st.v)
    THEN /\ out' = Append(sofar, Status("Step", idx + 1, Len(st.v)))
         /\ calls' = calls \o <<Call("step", idx, tl, sl),
                                 Call("step", idx + 1, tl, sl)>>
         /\ pc' = "step"
         /\ i' = idx
    ELSE /\ RetrySummaryCall(sofar, sl)
         /\ i' = idx
\* The head of the step loop (i < steps.length) at index idx, with the logs
\* tl and sl: the next execStep call, or the summary call after the loop.
RetryStepCall(sofar, st, idx, tl, sl) ==
    IF idx < Len(st.v)
    THEN /\ out' = Append(sofar, Status("Step", idx + 1, Len(st.v)))
         /\ calls' = Append(calls, Call("step", idx, tl, sl))
         /\ pc' = "step"
         /\ i' = idx
    ELSE /\ RetrySummaryCall(sofar, sl)
         /\ i' = idx

\* req.json() resolved: status, then getPlan is awaited.
RetryStart ==
    /\ route = "retry"
    /\ ~cancelled.is
    /\ pc = "start"
    /\ out' = Append(out, Status("Planning", 0, 0))
    /\ calls' = Append(calls, Call("plan", 0, <<>>, <<>>))
    /\ pc' = "plan"
    /\ UNCHANGED <<apiKey, otherVars, messages, cancelled, route, steps, i, toolsLog, stepsLog, full, toolRuns, replies,
                   lastReply>>

\* if (act.tool)
IsToolRequest(act) == Truthy(Get(act, "tool"))

\* (the loop without its i--)
IndexAfterToolNoDecrement(idx) == idx + 1
\* i--; continue; and the loop's i++: the index of the next execStep call
\* after a tool has run at index idx.
IndexAfterTool(idx) == idx

\* act.result ?? ''
StepOutput(act) == Coalesce(Get(act, "result"), JStr(<<>>))

\* (a loop that ends at the last index only)
LoopBreaksAtLastOnly(act, idx, n) == idx = n - 1
\* if (act.done || i === steps.length - 1) break outer;
LoopBreaks(act, idx, n) == Truthy(Get(act, "done")) \/ idx = n - 1

\* Whether execStep wrapped the reply as a result (history only).
IsFallback(resp) ==
    LET jsonStr == firstObject(resp.content)
    IN  ~(jsonStr.found /\ JsonParse(jsonStr.str).ok)

\* What the model backend can answer to a request of the retry-loop route,
\* whose callLLM sends `Bearer ${process.env.PERPLEXITY_API_KEY}` whether the
\* key is set or not: without the key the backend refuses the request.
BackendAnswers(key, responses) ==
    IF key THEN responses ELSE {LLMFailure("http_error")}

\* getPlan returned or threw.
RetryPlanReturn ==
    /\ route = "retry"
    /\ ~cancelled.is
    /\ pc = "plan"
    /\ \E resp \in BackendAnswers(apiKey, PlanResponses) :
         LET planRes == getPlan(resp) IN
         /\ lastReply' = resp
         /\ IF planRes.threw
            THEN /\ RetryCatch(out, planRes.msg)
                 /\ replies' = Append(replies, Reply("plan", 0, resp, "threw", FALSE))
                 /\ UNCHANGED <<steps, i, calls>>
            ELSE IF Truthy(planRes.direct)
            THEN /\ out' = out \o <<SummaryEvent(planRes.direct.v, NoCtx, FALSE),
                                    Sentinel>>
                 /\ pc' = "closed"
                 /\ replies' = Append(replies, Reply("plan", 0, resp, "direct", FALSE))
                 /\ UNCHANGED <<steps, i, calls>>
            ELSE IF planRes.steps.t # "array"
            \* steps is undefined: steps.length throws in the loop head
            THEN /\ RetryCatch(Append(out, PlanEvent(planRes.steps)),
                               <<"Cannot read properties of undefined (reading 'length')">>)
                 /\ replies' = Append(replies, Reply("plan", 0, resp, "direct", FALSE))
                 /\ steps' = planRes.steps
                 /\ UNCHANGED <<i, calls>>
            ELSE /\ steps' = planRes.steps
                 /\ replies' = Append(replies, Reply("plan", 0, resp, "plan", FALSE))
                 /\ RetryStepCall(Append(out, PlanEvent(planRes.steps)),
                                  planRes.steps, 0, <<>>, <<>>)
    /\ UNCHANGED <<apiKey, otherVars, messages, cancelled, route, toolsLog, stepsLog, full, toolRuns>>

\* (a tool branch that also reports the step)
RetryToolBranchEmitsStep(resp, act) ==
    \E outcome \in Dispatch(Get(act, "tool")) :
      LET tool   == Get(act, "tool")
          params == Coalesce(Get(act, "params"), JObj(EmptyObj))
          res    == runTool(tool, params, outcome)
          entry  == [tool |-> tool, params |-> Get(act, "params"),
                     result |-> res.value]
      IN  /\ Len(toolRuns) < MaxToolRuns
          /\ toolRuns' = Append(toolRuns,
                [index |-> i, tool |-> tool, params |-> params,
                 outcome |-> outcome.kind,
                 credentials |-> CredentialsGiven])
          /\ replies' = Append(replies, Reply("step", i, resp, "tool", FALSE))
          /\ IF res.threw
             THEN /\ RetryCatch(out, res.msg)
                  /\ UNCHANGED <<i, toolsLog, calls>>
             ELSE /\ toolsLog' = Push(toolsLog, entry)
                  /\ RetryStepCall(Append(out, StepEvent(i, steps.v[i + 1], res.value)),
                                   steps, IndexAfterTool(i), toolsLog', stepsLog)
          /\ UNCHANGED stepsLog

\* The tool branch of the loop body: runTool, the log entry, the retry.
RetryToolBranch(resp, act) ==
    \E outcome \in Dispatch(Get(act, "tool")) :
      LET tool   == Get(act, "tool")
          params == Coalesce(Get(act, "params"), JObj(EmptyObj))
          res    == runTool(tool, params, outcome)
          entry  == [tool |-> tool, params |-> Get(act, "params"),
                     result |-> res.value]
      IN  /\ Len(toolRuns) < MaxToolRuns
          /\ toolRuns' = Append(toolRuns,
                [index |-> i, tool |-> tool, params |-> params,
                 outcome |-> outcome.kind,
                 credentials |-> CredentialsGiven])
          /\ replies' = Append(replies, Reply("step", i, resp, "tool", FALSE))
          /\ IF res.threw
             THEN /\ RetryCatch(out, res.msg)
                  /\ UNCHANGED <<i, toolsLog, calls>>
             ELSE /\ toolsLog' = Push(toolsLog, entry)
                  /\ RetryStepCall(out, steps, IndexAfterTool(i), toolsLog', stepsLog)
          /\ UNCHANGED stepsLog

\* The other branch: the step is final.
RetryFinalBranch(resp, act) ==
    LET output == StepOutput(act)
        entry  == [step |-> steps.v[i + 1], output |-> output]
        sofar  == Append(out, StepEvent(i, steps.v[i + 1], output))
    IN  /\ stepsLog' = Push(stepsLog, entry)
        /\ replies' = Append(replies,
              Reply("step", i, resp,
                    IF IsFallback(resp) THEN "fallback" ELSE "final",
                    Truthy(Get(act, "done"))))
        /\ IF LoopBreaks(act, i, NumSteps)
           THEN RetrySummaryCall(sofar, stepsLog') /\ UNCHANGED i
           ELSE RetryStepCall(sofar, steps, i + 1, toolsLog, stepsLog')
        /\ UNCHANGED <<toolsLog, toolRuns>>

\* execStep returned or threw; the rest of the loop body runs, runTool
\* (synchronous) included, up to the next execStep or the summary call.
RetryStepReturn ==
    /\ route = "retry"
    /\ ~cancelled.is
    /\ pc = "step"
    /\ \E resp \in StepResponses :
         LET r == execStep(resp) IN
         /\ lastReply' = resp
         /\ IF r.threw
            THEN /\ RetryCatch(out, r.msg)
                 /\ replies' = Append(replies, Reply("step", i, resp, "threw", FALSE))
                 /\ UNCHANGED <<i, toolsLog, stepsLog, calls, toolRuns>>
            ELSE IF IsToolRequest(r.value.v)
            THEN RetryToolBranch(resp, r.value.v)
            ELSE RetryFinalBranch(resp, r.value.v)
    /\ UNCHANGED <<apiKey, otherVars, messages, cancelled, route, steps, full>>

\* The summary call returned or threw.
RetrySummaryReturn ==
    /\ route = "retry"
    /\ ~cancelled.is
    /\ pc = "summary"
    /\ \E resp \in SummaryResponses :
         LET r == callLLM(resp) IN
         /\ lastReply' = resp
         /\ IF r.threw
            THEN /\ RetryCatch(out, r.msg)
                 /\ replies' = Append(replies, Reply("summary", 0, resp, "threw", FALSE))
            ELSE LET summary == IF r.value.t = "string" THEN r.value.v
                                ELSE <<"null">>     \* null + '\n\n' + hidden
                     ctx     == [stepsLog |-> stepsLog, toolsLog |-> toolsLog]
                     hidden  == HiddenBlock
                 IN  /\ out' = out \o <<SummaryEvent(summary \o <<"\n\n">> \o hidden,
                                                     ctx, FALSE),
                                        Sentinel>>
                     /\ pc' = "closed"
                     /\ replies' = Append(replies,
                                          Reply("summary", 0, resp, "summary", FALSE))
    /\ UNCHANGED <<apiKey, otherVars, messages, cancelled, route, steps, i, toolsLog, stepsLog, full, calls, toolRuns>>

(***************************************************************************)
(* Streaming route: POST, lines 283-356.                                   *)
(***************************************************************************)
\* callLLM of the streaming route: also throws when there is no content.
callLLMGroq(resp) ==
    CASE resp.kind = "http_error" -> Threw(<<"Groq API error 500: upstream error">>)
      [] resp.kind = "bad_json"   -> Threw(<<"Invalid JSON from Groq: SyntaxError">>)
      [] resp.kind \in {"no_choices", "null_content", "empty"}
            -> Threw(<<"Invalid response structure from Groq API">>)
      [] OTHER                    -> Return(JStr(resp.content))

\* (runTool without its `if (!res.ok) throw`: the body of the refusal is
\* returned as the result)
runToolLibNoOkCheck(tool, params, outcome) ==
    CASE outcome.kind = "failed"   -> Return(JObj([error |-> JStr(<<"Unknown tool">>)]))
      [] outcome.kind = "not_json" -> Threw(<<"Unexpected token T in JSON">>)
      [] OTHER                     -> Return(outcome.value)
\* runTool of src/lib/runTool.ts (part_006): throws unless the tool endpoint
\* answers with success and a JSON body.
runToolLib(tool, params, outcome) ==
    CASE outcome.kind = "failed"   -> Threw(<<"tool endpoint error">>)
      [] outcome.kind = "not_json" -> Threw(<<"Unexpected token T in JSON">>)
      [] OTHER                     -> Return(outcome.value)

\* JSON.stringify(x), kept as the value it serialises.
JsonStringify(x) == [t |-> "json_text", v |-> x]

\* x.key for a value x that is neither null nor undefined.
Prop(x, key) == IF x.t = "object" THEN Get(x.v, key) ELSE JUndef

\* The plan phase after callLLM, whose result is r: [kind, msg, text, steps]
\* with kind "threw" | "direct" | "plan".
PlanFrom(r) ==
    IF r.threw
    THEN [kind |-> "threw", msg |-> r.msg, text |-> <<>>, steps |-> JUndef]
    ELSE
      LET planRaw == r.value.v
          pj      == firstJson(planRaw)
          parsed  == JsonParse(pj.str)
      IN  IF ~pj.found
          THEN [kind |-> "direct", msg |-> <<>>, text |-> stripCtx(planRaw),
                steps |-> JUndef]
          ELSE IF ~parsed.ok
          THEN [kind |-> "threw", msg |-> <<"Unexpected token o in JSON">>,
                text |-> <<>>, steps |-> JUndef]
          ELSE [kind |-> "plan", msg |-> <<>>, text |-> <<>>,
                steps |-> Get(parsed.val.v, "steps")]

\* The plan phase of the streaming route, from the model's response.
StreamPlan(resp) == PlanFrom(callLLMGroq(resp))

\* (a catch that sends the summary and leaves the stream open)
StreamCatchNoClose(sofar, msg) ==
    /\ out' = Append(sofar, SummaryEvent(ErrorText(msg), NoCtx, TRUE))
    /\ pc' = "open"
\* catch: the error summary, close.
StreamCatch(sofar, msg) ==
    /\ out' = Append(sofar, SummaryEvent(ErrorText(msg), NoCtx, TRUE))
    /\ pc' = "closed"

\* The head of the execution loop at index idx with the plan st and the log
\* sl: the next tool, the summary phase, or the TypeError of steps.length.
StreamLoopHead(sofar, st, idx, sl) ==
    IF st.t \in {"undefined", "null"}
    THEN /\ StreamCatch(sofar, LengthTypeError(st))
         /\ UNCHANGED <<i, calls, toolRuns>>
    ELSE IF st.t = "array" /\ idx < Len(st.v)
    THEN /\ out' = Append(sofar, Status("Step", idx + 1, Len(st.v)))
         /\ toolRuns' = Append(toolRuns,
               [index |-> idx, tool |-> Prop(st.v[idx + 1], "tool"),
                params |-> Coalesce(Prop(st.v[idx + 1], "params"), JObj(EmptyObj)),
                outcome |-> "pending",
                credentials |-> CredentialsGiven])
         /\ pc' = "tool"
         /\ i' = idx
         /\ UNCHANGED calls
    ELSE /\ out' = Append(sofar, Status("Finalising", 0, 0))
         /\ calls' = Append(calls, Call("summary", 0, <<>>, sl))
         /\ pc' = "stream"
         /\ i' = idx
         /\ UNCHANGED toolRuns

\* The status event, then callLLM: it throws before any fetch when
\* LLM_API_KEY is not set.
StreamStart ==
    /\ route = "stream"
    /\ ~cancelled.is
    /\ pc = "start"
    /\ IF apiKey
       THEN /\ out' = Append(out, Status("Planning", 0, 0))
            /\ calls' = Append(calls, Call("plan", 0, <<>>, <<>>))
            /\ pc' = "plan"
       ELSE /\ StreamCatch(Append(out, Status("Planning", 0, 0)),
                           <<"LLM_API_KEY is not configured.">>)
            /\ UNCHANGED calls
    /\ UNCHANGED <<apiKey, otherVars, messages, cancelled, route, steps, i, toolsLog, stepsLog, full, toolRuns, replies,
                   lastReply>>

StreamPlanReturn ==
    /\ route = "stream"
    /\ ~cancelled.is
    /\ pc = "plan"
    /\ \E resp \in PlanResponses :
         LET p == StreamPlan(resp) IN
         /\ lastReply' = resp
         /\ replies' = Append(replies, Reply("plan", 0, resp, p.kind, FALSE))
         /\ CASE p.kind = "threw" ->
                   /\ StreamCatch(out, p.msg)
                   /\ UNCHANGED <<steps, i, calls, toolRuns>>
              [] p.kind = "direct" ->
                   /\ out' = Append(out, SummaryEvent(p.text, NoCtx, FALSE))
                   /\ pc' = "closed"
                   /\ UNCHANGED <<steps, i, calls, toolRuns>>
              [] OTHER ->
                   /\ steps' = p.steps
                   /\ StreamLoopHead(Append(out, PlanEvent(p.steps)), p.steps, 0, <<>>)
    /\ UNCHANGED <<apiKey, otherVars, messages, cancelled, route, toolsLog, stepsLog, full>>

\* await runTool(...) returned or threw; after the step event the handler
\* waits for the STEP_DELAY timer.
StreamToolReturn ==
    /\ route = "stream"
    /\ ~cancelled.is
    /\ pc = "tool"
    /\ \E outcome \in Dispatch(toolRuns[Len(toolRuns)].tool) :
         LET run == toolRuns[Len(toolRuns)]
             res == runToolLib(run.tool, run.params, outcome)
             entry == [step |-> steps.v[i + 1], output |-> JsonStringify(res.value)]
             done == [toolRuns EXCEPT ![Len(toolRuns)].outcome = outcome.kind]
         IN  IF res.threw
             THEN /\ StreamCatch(out, res.msg)
                  /\ toolRuns' = done
                  /\ UNCHANGED <<i, stepsLog, calls>>
             ELSE /\ stepsLog' = Push(stepsLog, entry)
                  /\ out' = Append(out, StepEvent(i, steps.v[i + 1], res.value))
                  /\ toolRuns' = done
                  /\ pc' = "timer"
                  /\ UNCHANGED <<i, calls>>
    /\ UNCHANGED <<apiKey, otherVars, messages, cancelled, route, steps, toolsLog, full, replies, lastReply>>

\* The STEP_DELAY timer fired: i++, the next loop head.
StreamTimerReturn ==
    /\ route = "stream"
    /\ ~cancelled.is
    /\ pc = "timer"
    /\ StreamLoopHead(out, steps, i + 1, stepsLog)
    /\ UNCHANGED <<apiKey, otherVars, messages, cancelled, route, steps, toolsLog, stepsLog, full, replies,
                   lastReply>>

Deltas == {<<"You are enrolled ">>, <<"in Algorithms.">>}

\* (a summary text that keeps the latest delta only)
AccumulateLatest(text, delta) == delta
\* full += delta
Accumulate(text, delta) == text \o delta

NumChunks == Cardinality({k \in 1..Len(out) : out[k].type = "summary_chunk"})

\* streamLLM yielded a delta.
StreamDelta ==
    /\ route = "stream"
    /\ ~cancelled.is
    /\ pc = "stream"
    /\ NumChunks < MaxDeltas
    /\ \E delta \in Deltas :
         /\ full' = Accumulate(full, delta)
         /\ out' = Append(out, ChunkEvent(delta))
    /\ UNCHANGED <<apiKey, otherVars, messages, cancelled, route, pc, steps, i, toolsLog, stepsLog, calls, toolRuns,
                   replies, lastReply>>

\* streamLLM returned.
StreamDone ==
    /\ route = "stream"
    /\ ~cancelled.is
    /\ pc = "stream"
    /\ out' = Append(out, SummaryEvent(full, NoCtx, FALSE))
    /\ pc' = "closed"
    /\ replies' = Append(replies,
                         Reply("summary", 0, LLMText(full), "summary", FALSE))
    /\ UNCHANGED <<apiKey, otherVars, messages, cancelled, route, steps, i, toolsLog, stepsLog, full, calls, toolRuns,
                   lastReply>>

\* How streamLLM can throw once `chunks` deltas were yielded: the check of
\* res.ok comes before the first read, a read can fail at any time.
StreamFailures(chunks) ==
    (IF chunks = 0
     THEN {[kind |-> "http_error",
            msg |-> <<"Groq API stream error 500: upstream error">>]}
     ELSE {})
    \cup {[kind |-> "read_failed", msg |-> <<"terminated">>]}

\* streamLLM threw: a non-success response, or a failed read.
StreamFail ==
    /\ route = "stream"
    /\ ~cancelled.is
    /\ pc = "stream"
    /\ \E f \in StreamFailures(NumChunks) :
         /\ StreamCatch(out, f.msg)
         /\ replies' = Append(replies,
                              Reply("summary", 0, LLMFailure(f.kind), "threw", FALSE))
    /\ UNCHANGED <<apiKey, otherVars, messages, cancelled, route, steps, i, toolsLog, stepsLog, full, calls, toolRuns,
                   lastReply>>

(***************************************************************************)
(* Older route: POST, lines 1033-1131.  Its tools run synchronously inside *)
(* the handler, which is suspended at the plan call, at the STEP_DELAY     *)
(* timer and at the reads of the summary stream only.                      *)
(***************************************************************************)
\* callLLM of the older route: the check of the response's structure is
\* inside the try, whose catch wraps every message.
callLLMOlder(resp) ==
    CASE resp.kind = "http_error" -> Threw(<<"Groq API error 500: upstream error">>)
      [] resp.kind = "bad_json"
            -> Threw(<<"Failed to parse response from Groq API: ",
                       "Unexpected token < in JSON">>)
      [] resp.kind \in {"no_choices", "null_content", "empty"}
            -> Threw(<<"Failed to parse response from Groq API: ",
                       "Invalid response structure from Groq API">>)
      [] OTHER                    -> Return(JStr(resp.content))

\* The courses the page has loaded and writes into its system message.
LoadedCourses ==
    JArr(<<JObj([id |-> JNum(1), name |-> JStr(<<"Algorithms">>)])>>)

\* systemCtx: JSON.parse of the content of the first system message; {} when
\* there is none or when it is no JSON.
SystemCtx(msgs) ==
    LET found == {k \in 1..Len(msgs) : msgs[k].role = "system"}
        first == CHOOSE k \in found : \A j \in found : k <= j
    IN  IF found # {} /\ msgs[first].content = SystemMsg.content
        THEN JObj([courses |-> LoadedCourses, todos |-> JArr(<<>>)])
        ELSE JObj(EmptyObj)

\* tool === 'get_courses' && Array.isArray(systemCtx.courses)
FromSystemCtx(ctx, tool) ==
    tool = ToolName /\ Prop(ctx, "courses").t = "array"

\* runTool of the older route, when it runs the process: execSync throws
\* when the process fails; output that is not JSON is returned as it is.
runToolOlder(tool, params, outcome) ==
    CASE outcome.kind = "failed" -> Threw(<<"Command failed: python3 tool_caller.py">>)
      [] outcome.kind \in {"json", "error"} -> Return(outcome.value)
      [] OTHER                   -> Return(JStr(outcome.raw))

\* log.push, the step event, then the wait for the STEP_DELAY timer.
OlderStepDone(sofar, st, idx, sl, output) ==
    /\ stepsLog' = Push(sl, [step |-> st.v[idx + 1], output |-> JsonStringify(output)])
    /\ out' = Append(sofar, StepEvent(idx, st.v[idx + 1], output))
    /\ pc' = "timer"
    /\ i' = idx
    /\ UNCHANGED calls

\* The head of the execution loop at index idx: the status event and the
\* tool of the step, run before the handler is suspended again; the summary
\* phase; or the TypeError of steps.length.
OlderLoopHead(sofar, st, idx, sl) ==
    IF st.t \in {"undefined", "null"}
    THEN /\ StreamCatch(sofar, LengthTypeError(st))
         /\ UNCHANGED <<i, calls, toolRuns, stepsLog>>
    ELSE IF st.t = "array" /\ idx < Len(st.v)
    THEN LET tool   == Prop(st.v[idx + 1], "tool")
             params == Coalesce(Prop(st.v[idx + 1], "params"), JObj(EmptyObj))
             status == Append(sofar, Status("Step", idx + 1, Len(st.v)))
             ctx    == SystemCtx(messages)
         IN  IF FromSystemCtx(ctx, tool)
             THEN /\ OlderStepDone(status, st, idx, sl, Prop(ctx, "courses"))
                  /\ UNCHANGED toolRuns
             ELSE \E outcome \in Dispatch(tool) :
                    LET res == runToolOlder(tool, params, outcome) IN
                    /\ toolRuns' = Append(toolRuns,
                          [index |-> idx, tool |-> tool, params |-> params,
                           outcome |-> outcome.kind,
                           credentials |-> CredentialsGiven])
                    /\ IF res.threw
                       THEN /\ StreamCatch(status, res.msg)
                            /\ i' = idx
                            /\ UNCHANGED <<calls, stepsLog>>
                       ELSE OlderStepDone(status, st, idx, sl, res.value)
    ELSE /\ out' = Append(sofar, Status("Finalising", 0, 0))
         /\ calls' = Append(calls, Call("summary", 0, <<>>, sl))
         /\ pc' = "stream"
         /\ i' = idx
         /\ UNCHANGED <<toolRuns, stepsLog>>

\* The status event, then callLLM: it throws before any fetch when
\* LLM_API_KEY is not set.
OlderStart ==
    /\ route = "older"
    /\ ~cancelled.is
    /\ pc = "start"
    /\ IF apiKey
       THEN /\ out' = Append(out, Status("Planning", 0, 0))
            /\ calls' = Append(calls, Call("plan", 0, <<>>, <<>>))
            /\ pc' = "plan"
       ELSE /\ StreamCatch(Append(out, Status("Planning", 0, 0)),
                           <<"API key for LLM provider is not configured.">>)
            /\ UNCHANGED calls
    /\ UNCHANGED <<apiKey, otherVars, messages, cancelled, route, steps, i, toolsLog, stepsLog, full, toolRuns, replies,
                   lastReply>>

\* callLLM returned or threw: the direct answer, or the plan event and the
\* first step with its tool.
OlderPlanReturn ==
    /\ route = "older"
    /\ ~cancelled.is
    /\ pc = "plan"
    /\ \E resp \in PlanResponses :
         LET p == PlanFrom(callLLMOlder(resp)) IN
         /\ lastReply' = resp
         /\ replies' = Append(replies, Reply("plan", 0, resp, p.kind, FALSE))
         /\ CASE p.kind = "threw" ->
                   /\ StreamCatch(out, p.msg)
                   /\ UNCHANGED <<steps, i, calls, toolRuns, stepsLog>>
              [] p.kind = "direct" ->
                   /\ out' = Append(out, SummaryEvent(p.text, NoCtx, FALSE))
                   /\ pc' = "closed"
                   /\ UNCHANGED <<steps, i, calls, toolRuns, stepsLog>>
              [] OTHER ->
                   /\ steps' = p.steps
                   /\ OlderLoopHead(Append(out, PlanEvent(p.steps)), p.steps, 0, <<>>)
    /\ UNCHANGED <<apiKey, otherVars, messages, cancelled, route, toolsLog, full>>

\* The STEP_DELAY timer fired: i++, the next loop head.
OlderTimerReturn ==
    /\ route = "older"
    /\ ~cancelled.is
    /\ pc = "timer"
    /\ OlderLoopHead(out, steps, i + 1, stepsLog)
    /\ UNCHANGED <<apiKey, otherVars, messages, cancelled, route, steps, toolsLog, full, replies, lastReply>>

\* streamLLM yielded a delta.
OlderDelta ==
    /\ route = "older"
    /\ ~cancelled.is
    /\ pc = "stream"
    /\ NumChunks < MaxDeltas
    /\ \E delta \in Deltas :
         /\ full' = Accumulate(full, delta)
         /\ out' = Append(out, ChunkEvent(delta))
    /\ UNCHANGED <<apiKey, otherVars, messages, cancelled, route, pc, steps, i, toolsLog, stepsLog, calls, toolRuns,
                   replies, lastReply>>

\* streamLLM returned.
OlderDone ==
    /\ route = "older"
    /\ ~cancelled.is
    /\ pc = "stream"
    /\ out' = Append(out, SummaryEvent(full, NoCtx, FALSE))
    /\ pc' = "closed"
    /\ replies' = Append(replies,
                         Reply("summary", 0, LLMText(full), "summary", FALSE))
    /\ UNCHANGED <<apiKey, otherVars, messages, cancelled, route, steps, i, toolsLog, stepsLog, full, calls, toolRuns,
                   lastReply>>

\* streamLLM threw: a non-success response, or a failed read.
OlderFail ==
    /\ route = "older"
    /\ ~cancelled.is
    /\ pc = "stream"
    /\ \E f \in StreamFailures(NumChunks) :
         /\ StreamCatch(out, f.msg)
         /\ replies' = Append(replies,
                              Reply("summary", 0, LLMFailure(f.kind), "threw", FALSE))
    /\ UNCHANGED <<apiKey, otherVars, messages, cancelled, route, steps, i, toolsLog, stepsLog, full, calls, toolRuns,
                   lastReply>>

Next ==
    \/ StreamStart
    \/ StreamPlanReturn
    \/ StreamToolReturn
    \/ StreamTimerReturn
    \/ StreamDelta
    \/ StreamDone
    \/ StreamFail
    \/ OlderStart
    \/ OlderPlanReturn
    \/ OlderTimerReturn
    \/ OlderDelta
    \/ OlderDone
    \/ OlderFail
    \/ RetryStart
    \/ RetryPlanReturn
    \/ RetryStepReturn
    \/ RetrySummaryReturn

Spec == Init /\ [][Next]_vars

\* The same request, for each of the histories the client can send.
InitHist ==
    /\ route \in {"retry", "stream", "older"}
    /\ pc = "start"
    /\ steps = JUndef
    /\ i = 0
    /\ toolsLog = <<>>
    /\ stepsLog = <<>>
    /\ full = <<>>
    /\ out = <<>>
    /\ calls = <<>>
    /\ toolRuns = <<>>
    /\ replies = <<>>
    /\ lastReply = NoReply
    /\ messages \in Histories(route)
    /\ cancelled = NotCancelled
    /\ apiKey = TRUE
    /\ input = <<>>
    /\ result = NoResult
    /\ other = NoRequest
    /\ running = 1
    /\ client = NoClient

HistSpec == InitHist /\ [][Next]_vars

\* Every awaited call returns: a handler that can resume does resume.
LiveSpec == Spec /\ WF_vars(Next)

(***************************************************************************)
(* Cancellation.  The client aborts its fetch (page.tsx, cancel); the      *)
(* response stream is cancelled, and from then on ctrl.enqueue throws.     *)
(* Neither route registers a cancel callback or reads req.signal: the      *)
(* handler runs on to its next enqueue, whose TypeError is caught by the   *)
(* catch block, whose own enqueue throws again and ends the handler.       *)
(***************************************************************************)
Cancel ==
    /\ ~cancelled.is
    \* The retry-loop route returns its response before the handler has read
    \* the request body (await req.json() is inside start); the other routes
    \* read the body first and are at the plan call when the response exists.
    /\ \/ pc \in {"plan", "step", "tool", "timer", "summary", "stream"}
       \/ route = "retry" /\ pc = "start"
    /\ cancelled' = [is |-> TRUE, calls |-> Len(calls), runs |-> Len(toolRuns),
                     events |-> Len(out)]
    /\ UNCHANGED <<route, pc, steps, i, toolsLog, stepsLog, full, out, calls,
                   toolRuns, replies, lastReply, messages, apiKey, otherVars>>

\* The retry-loop route resumes after the cancellation.
RetryResumeCancelled ==
    /\ route = "retry"
    /\ cancelled.is
    /\ pc \in {"start", "plan", "step", "summary"}
    /\ pc' = "aborted"
    /\ CASE pc = "start" ->
              \* req.json() settles; enqueue('status', ...) throws before
              \* getPlan is called
              UNCHANGED <<steps, toolsLog, stepsLog, toolRuns, replies>>
         [] pc = "plan" ->
              \E resp \in BackendAnswers(apiKey, PlanResponses) :
                LET planRes == getPlan(resp) IN
                /\ replies' = Append(replies, Reply("plan", 0, resp,
                        IF planRes.threw THEN "threw"
                        ELSE IF Truthy(planRes.direct) THEN "direct" ELSE "plan",
                        FALSE))
                \* const steps = planRes.steps!; enqueue('plan', ...) throws
                /\ steps' = IF planRes.threw \/ Truthy(planRes.direct)
                            THEN steps ELSE planRes.steps
                /\ UNCHANGED <<toolsLog, stepsLog, toolRuns>>
         [] pc = "step" ->
              \E resp \in StepResponses :
                LET r == execStep(resp) IN
                IF r.threw
                THEN /\ replies' = Append(replies, Reply("step", i, resp, "threw", FALSE))
                     /\ UNCHANGED <<steps, toolsLog, stepsLog, toolRuns>>
                ELSE IF IsToolRequest(r.value.v)
                THEN \* runTool runs before anything is enqueued
                     \E outcome \in Dispatch(Get(r.value.v, "tool")) :
                       LET tool   == Get(r.value.v, "tool")
                           params == Coalesce(Get(r.value.v, "params"), JObj(EmptyObj))
                           res    == runTool(tool, params, outcome)
                       IN  /\ Len(toolRuns) < MaxToolRuns
                           /\ toolRuns' = Append(toolRuns,
                                 [index |-> i, tool |-> tool, params |-> params,
                                  outcome |-> outcome.kind,
                                  credentials |-> CredentialsGiven])
                           /\ replies' = Append(replies,
                                 Reply("step", i, resp, "tool", FALSE))
                           /\ toolsLog' =
                                 IF res.threw THEN toolsLog
                                 ELSE Push(toolsLog,
                                        [tool |-> tool,
                                         params |-> Get(r.value.v, "params"),
                                         result |-> res.value])
                           /\ UNCHANGED <<steps, stepsLog>>
                ELSE \* stepsLog.push, then enqueue('step', ...) throws
                     /\ stepsLog' = Push(stepsLog,
                           [step |-> steps.v[i + 1], output |-> StepOutput(r.value.v)])
                     /\ replies' = Append(replies,
                           Reply("step", i, resp,
                                 IF IsFallback(resp) THEN "fallback" ELSE "final",
                                 Truthy(Get(r.value.v, "done"))))
                     /\ UNCHANGED <<steps, toolsLog, toolRuns>>
         [] pc = "summary" ->
              \E resp \in SummaryResponses :
                /\ replies' = Append(replies, Reply("summary", 0, resp,
                        IF callLLM(resp).threw THEN "threw" ELSE "summary", FALSE))
                /\ UNCHANGED <<steps, toolsLog, stepsLog, toolRuns>>
    /\ UNCHANGED <<route, i, full, out, calls, lastReply, messages, cancelled,
                   apiKey, otherVars>>

\* The streaming route resumes after the cancellation.
StreamResumeCancelled ==
    /\ route = "stream"
    /\ cancelled.is
    /\ pc \in {"plan", "tool", "timer", "stream"}
    /\ pc' = "aborted"
    /\ CASE pc = "plan" ->
              \E resp \in PlanResponses :
                LET p == StreamPlan(resp) IN
                /\ replies' = Append(replies, Reply("plan", 0, resp, p.kind, FALSE))
                \* const { steps } = JSON.parse(pj); send('plan', ...) throws
                /\ steps' = IF p.kind = "plan" THEN p.steps ELSE steps
                /\ UNCHANGED <<stepsLog, toolRuns, full>>
         [] pc = "tool" ->
              \E outcome \in Dispatch(toolRuns[Len(toolRuns)].tool) :
                LET run == toolRuns[Len(toolRuns)]
                    res == runToolLib(run.tool, run.params, outcome)
                IN  /\ toolRuns' = [toolRuns EXCEPT ![Len(toolRuns)].outcome = outcome.kind]
                    \* log.push, then send('step', ...) throws
                    /\ stepsLog' =
                          IF res.threw THEN stepsLog
                          ELSE Push(stepsLog,
                                 [step |-> steps.v[i + 1],
                                  output |-> JsonStringify(res.value)])
                    /\ UNCHANGED <<steps, replies, full>>
         [] pc = "timer" ->
              \* the next send('status', ...) throws
              UNCHANGED <<steps, stepsLog, toolRuns, replies, full>>
         [] pc = "stream" ->
              \* a delta (full += delta; send throws), the end of the stream
              \* or its failure (send('summary', ...) throws)
              \E delta \in Deltas \cup {<<>>} :
                /\ full' = Accumulate(full, delta)
                /\ UNCHANGED <<steps, stepsLog, toolRuns, replies>>
    /\ UNCHANGED <<route, i, toolsLog, out, calls, lastReply, messages, cancelled,
                   apiKey, otherVars>>

\* The older route resumes after the cancellation: whatever it resumes from,
\* its next statement that changes anything outside is a send, which throws
\* before a tool is run.
OlderResumeCancelled ==
    /\ route = "older"
    /\ cancelled.is
    /\ pc \in {"plan", "timer", "stream"}
    /\ pc' = "aborted"
    /\ CASE pc = "plan" ->
              \E resp \in PlanResponses :
                LET p == PlanFrom(callLLMOlder(resp)) IN
                /\ replies' = Append(replies, Reply("plan", 0, resp, p.kind, FALSE))
                \* const { steps } = JSON.parse(pj); send('plan', ...) throws
                /\ steps' = IF p.kind = "plan" THEN p.steps ELSE steps
                /\ UNCHANGED full
         [] pc = "timer" ->
              \* the next send('status', ...) throws
              UNCHANGED <<steps, replies, full>>
         [] pc = "stream" ->
              \E delta \in Deltas \cup {<<>>} :
                /\ full' = Accumulate(full, delta)
                /\ UNCHANGED <<steps, replies>>
    /\ UNCHANGED <<route, i, toolsLog, stepsLog, toolRuns, out, calls, lastReply,
                   messages, cancelled, apiKey, otherVars>>

NextCancel ==
    \/ Next
    \/ Cancel
    \/ RetryResumeCancelled
    \/ StreamResumeCancelled
    \/ OlderResumeCancelled

CancelSpec == Init /\ [][NextCancel]_vars

(***************************************************************************)
(* Two requests handled by one server process.  Each call of POST has its  *)
(* own locals (messages, steps, toolsLog, stepsLog, full, the stream       *)
(* controller) and the module has no mutable binding, so a handler is its  *)
(* locals.  The handler variables hold the request that runs; the other    *)
(* waits at an await, its locals in `other`, and runs when Switch swaps    *)
(* the two.  The event loop may do that between any two resumptions.       *)
(***************************************************************************)
\* The locals of the handler that runs.
Loaded ==
    [route |-> route, pc |-> pc, steps |-> steps, i |-> i,
     toolsLog |-> toolsLog, stepsLog |-> stepsLog, full |-> full, out |-> out,
     calls |-> calls, toolRuns |-> toolRuns, replies |-> replies,
     lastReply |-> lastReply, messages |-> messages, cancelled |-> cancelled]

\* A handler at the start of POST.
Fresh(r) ==
    [route |-> r, pc |-> "start", steps |-> JUndef, i |-> 0,
     toolsLog |-> <<>>, stepsLog |-> <<>>, full |-> <<>>, out |-> <<>>,
     calls |-> <<>>, toolRuns |-> <<>>, replies |-> <<>>,
     lastReply |-> NoReply, messages |-> FirstRequest,
     cancelled |-> NotCancelled]

\* (logs that are bindings of the module, shared by the requests)
ResumeSharedLogs(r) ==
    /\ route' = r.route /\ pc' = r.pc /\ steps' = r.steps /\ i' = r.i
    /\ UNCHANGED <<toolsLog, stepsLog>>
    /\ full' = r.full /\ out' = r.out /\ calls' = r.calls
    /\ toolRuns' = r.toolRuns /\ replies' = r.replies
    /\ lastReply' = r.lastReply /\ messages' = r.messages
    /\ cancelled' = r.cancelled
\* The handler r goes on from its await, with its own locals.
Resume(r) ==
    /\ route' = r.route /\ pc' = r.pc /\ steps' = r.steps /\ i' = r.i
    /\ toolsLog' = r.toolsLog /\ stepsLog' = r.stepsLog
    /\ full' = r.full /\ out' = r.out /\ calls' = r.calls
    /\ toolRuns' = r.toolRuns /\ replies' = r.replies
    /\ lastReply' = r.lastReply /\ messages' = r.messages
    /\ cancelled' = r.cancelled

\* The event loop turns to the other request.
Switch ==
    /\ other' = Loaded
    /\ Resume(other)
    /\ running' = 3 - running
    /\ UNCHANGED <<apiKey, input, result, client>>

\* The model replies drawn when two requests run.
FewTexts ==
    {<<Prose>>,
     <<LBrace, "steps:[a]", RBrace>>,
     <<LBrace, "steps:[", LBrace, "tool:get_courses", RBrace, "]", RBrace>>,
     <<LBrace, "tool:get_courses", RBrace>>,
     <<LBrace, "result:r", RBrace>>,
     SummaryText}
FewReplies ==
    lastReply \in {NoReply, LLMFailure("http_error")} \cup {LLMText(t) : t \in FewTexts}

InitTwo ==
    /\ route \in {"retry", "stream", "older"}
    /\ pc = "start"
    /\ steps = JUndef
    /\ i = 0
    /\ toolsLog = <<>>
    /\ stepsLog = <<>>
    /\ full = <<>>
    /\ out = <<>>
    /\ calls = <<>>
    /\ toolRuns = <<>>
    /\ replies = <<>>
    /\ lastReply = NoReply
    /\ messages = FirstRequest
    /\ cancelled = NotCancelled
    /\ apiKey = TRUE
    /\ input = <<>>
    /\ result = NoResult
    /\ other \in {Fresh(r) : r \in {"retry", "stream", "older"}}
    /\ running = 1
    /\ client = NoClient

NextTwo ==
    \/ Next /\ FewReplies'
    \/ Switch

TwoSpec == InitTwo /\ [][NextTwo]_vars

(***************************************************************************)
(* The chat page (src/app/page.tsx): send, cancel, newChat.                *)
(*                                                                         *)
(* client.sends holds one entry per call of send, with the place its       *)
(* continuation waits at ("fetch", "read", "ended"), how its controller    *)
(* was aborted ("none" when it was not) and its summaryRunning.            *)
(* client.abortRef is the index of the send whose controller               *)
(* abortRef.current is, or 0 for null.  Aborting a controller rejects the  *)
(* pending fetch or read at once, so the continuation of the aborted send  *)
(* runs (as a microtask) before any other task: a click, a response, a     *)
(* chunk.  One read delivers one event.                                    *)
(***************************************************************************)
MaxSends == 2
MaxReads == 2

ClientMsg(role, content, isLoading) ==
    [role |-> role, content |-> content, isLoading |-> isLoading]

StoppedMsg == ClientMsg("assistant", <<"Stopped">>, FALSE)

\* What a read of the response stream can deliver.
ClientEvents ==
    {[type |-> "status"],
     [type |-> "plan", plan |-> <<"a">>],
     [type |-> "step", index |-> 0],
     [type |-> "summary_chunk", delta |-> <<"You are enrolled ">>],
     [type |-> "summary", summary |-> SummaryText],
     Sentinel}

\* (a slice that keeps the last message)
SliceAll(p) == p
\* p.slice(0, -1)
DropLast(p) == IF p = <<>> THEN p ELSE SubSeq(p, 1, Len(p) - 1)
\* p.at(-1), with the fields a spread of it copies
LastOf(p) ==
    IF p = <<>> THEN ClientMsg("undefined", <<>>, FALSE) ELSE p[Len(p)]

\* The credentials state and the sessionStorage item that mirrors it.
NullCredentials == [null |-> TRUE]
CanvasCredentials(url, key) == [canvasUrl |-> url, apiKey |-> key]
SavedCredentials == CanvasCredentials(<<"https://school.instructure.com">>, <<"token">>)
Absent == [t |-> "absent"]
\* The persist effect: removeItem for null, setItem(JSON.stringify) otherwise.
StorageOf(credentials) ==
    IF credentials = NullCredentials THEN Absent ELSE JsonStringify(credentials)

\* The page after its mount effects, with the credentials of the session.
ClientPage(credentials) ==
    [pc |-> "page", msgs |-> <<>>, plan |-> <<>>, done |-> <<>>,
     planVisible |-> FALSE, loading |-> FALSE, abortRef |-> 0, sends |-> <<>>,
     credentials |-> credentials, stored |-> StorageOf(credentials),
     credentialsOpen |-> FALSE]

ClientFresh == ClientPage(SavedCredentials)

InitClient ==
    /\ route = "retry"
    /\ pc = "start"
    /\ steps = JUndef
    /\ i = 0
    /\ toolsLog = <<>>
    /\ stepsLog = <<>>
    /\ full = <<>>
    /\ out = <<>>
    /\ calls = <<>>
    /\ toolRuns = <<>>
    /\ replies = <<>>
    /\ lastReply = NoReply
    /\ messages = FirstRequest
    /\ cancelled = NotCancelled
    /\ apiKey = TRUE
    /\ input = <<>>
    /\ result = NoResult
    /\ other = NoRequest
    /\ running = 1
    /\ client = ClientFresh

\* A continuation of an aborted send is waiting to run.
JobPending ==
    \E k \in 1..Len(client.sends) :
        client.sends[k].by # "none" /\ client.sends[k].pc # "ended"

\* abortRef.current?.abort()
Aborted(sends, ref, by) ==
    IF ref # 0 /\ sends[ref].by = "none"
    THEN [sends EXCEPT ![ref].by = by]
    ELSE sends

\* (a send that leaves abortRef on the controller of the send before)
StaleController(sends) == Len(sends)
\* const ctrl = new AbortController(); abortRef.current = ctrl
NewController(sends) == Len(sends) + 1

\* send, up to the await of fetch.
ClientSend ==
    /\ ~JobPending
    /\ ~client.loading
    /\ client.credentials # NullCredentials
    /\ Len(client.sends) < MaxSends
    /\ client' = [client EXCEPT
          !.plan = <<>>, !.done = <<>>, !.planVisible = TRUE,
          !.msgs = client.msgs \o
                     <<ClientMsg("user", <<"question">>, FALSE),
                       ClientMsg("assistant", <<>>, TRUE)>>,
          !.loading = TRUE,
          !.sends = Append(client.sends,
                       [pc |-> "fetch", by |-> "none", reads |-> 0,
                        summaryRunning |-> <<>>]),
          !.abortRef = NewController(client.sends)]
    /\ UNCHANGED <<input, result, other, running, handlerVars>>

\* cancel: the form's button while loading.
ClientCancel ==
    /\ ~JobPending
    /\ client.loading
    /\ client' = [client EXCEPT
          !.sends = Aborted(client.sends, client.abortRef, "cancel"),
          !.abortRef = 0,
          !.loading = FALSE, !.planVisible = FALSE,
          !.msgs = Append(DropLast(client.msgs), StoppedMsg)]
    /\ UNCHANGED <<input, result, other, running, handlerVars>>

\* newChat: the header's button; its last statement is sessionStorage.clear().
ClientNewChat ==
    /\ ~JobPending
    /\ client' = [client EXCEPT
          !.sends = Aborted(client.sends, client.abortRef, "newChat"),
          !.abortRef = 0,
          !.msgs = <<>>, !.plan = <<>>, !.done = <<>>,
          !.loading = FALSE, !.planVisible = FALSE,
          !.stored = Absent]
    /\ UNCHANGED <<input, result, other, running, handlerVars>>

\* catch (not aborted) and finally: the last message becomes the error.
ClientFailed(c, k, msg) ==
    [c EXCEPT
       !.msgs = Append(DropLast(c.msgs), ClientMsg("assistant", ErrorText(msg), FALSE)),
       !.loading = FALSE, !.abortRef = 0,
       !.sends[k].pc = "ended"]

\* finally, after the loop's break or the catch's return.
ClientFinally(c, k) ==
    [c EXCEPT !.loading = FALSE, !.abortRef = 0, !.sends[k].pc = "ended"]

\* (a catch without its `if (ctrl.signal.aborted) return`)
ClientAbortedShowsError(c, k) == ClientFailed(c, k, <<"AbortError">>)
\* The continuation of an aborted send: the await rejects (or the loop sees
\* ctrl.signal.aborted and breaks), the catch returns, finally runs.
ClientAborted(c, k) == ClientFinally(c, k)

\* fetch settles: a response, a response that is not ok, or a failure.
ClientFetchReturn ==
    /\ ~JobPending
    /\ \E k \in 1..Len(client.sends) :
          /\ client.sends[k].pc = "fetch"
          /\ \E outcome \in {"ok", "not_ok", "failed"} :
                client' =
                  CASE outcome = "ok" -> [client EXCEPT !.sends[k].pc = "read"]
                    [] outcome = "not_ok" ->
                          ClientFailed(client, k, <<"Internal Server Error">>)
                    [] OTHER -> ClientFailed(client, k, <<"Failed to fetch">>)
    /\ UNCHANGED <<input, result, other, running, handlerVars>>

\* The switch on evt.type.
ClientOnEvent(c, k, evt) ==
    CASE evt.type = "plan" -> [c EXCEPT !.plan = evt.plan]
      [] evt.type = "step" -> [c EXCEPT !.done = Append(c.done, evt.index)]
      [] evt.type = "summary_chunk" ->
            LET running_ == c.sends[k].summaryRunning \o evt.delta IN
            [c EXCEPT
               !.sends[k].summaryRunning = running_,
               !.msgs = Append(DropLast(c.msgs),
                               [LastOf(c.msgs) EXCEPT !.content = running_,
                                                      !.isLoading = TRUE])]
      [] evt.type = "summary" ->
            [c EXCEPT
               !.planVisible = FALSE,
               !.msgs = Append(DropLast(c.msgs),
                               ClientMsg("assistant", toDisplay(JStr(evt.summary)),
                                         FALSE))]
      [] OTHER -> c

\* reader.read() settles: an event (JSON.parse throws on the sentinel, which
\* is not JSON), the end of the stream, or a failure.
ClientRead ==
    /\ ~JobPending
    /\ \E k \in 1..Len(client.sends) :
          /\ client.sends[k].pc = "read"
          /\ \/ /\ client.sends[k].reads < MaxReads
                /\ \E evt \in ClientEvents :
                      client' =
                        IF evt = Sentinel
                        THEN ClientFailed(client, k, SentinelParseError)
                        ELSE ClientOnEvent(
                               [client EXCEPT !.sends[k].reads = @ + 1], k, evt)
             \/ client' = ClientFinally(client, k)
             \/ client' = ClientFailed(client, k, <<"network error">>)
    /\ UNCHANGED <<input, result, other, running, handlerVars>>

\* The continuation of an aborted send runs.
ClientSettleAborted ==
    /\ \E k \in 1..Len(client.sends) :
          /\ client.sends[k].by # "none"
          /\ client.sends[k].pc # "ended"
          /\ client' = ClientAborted(client, k)
    /\ UNCHANGED <<input, result, other, running, handlerVars>>

NextClient ==
    \/ ClientSend
    \/ ClientCancel
    \/ ClientNewChat
    \/ ClientFetchReturn
    \/ ClientRead
    \/ ClientSettleAborted

ClientSpec == InitClient /\ [][NextClient]_vars

(***************************************************************************)
(* The extractors and the sanitizers on their own: each is applied to a    *)
(* text drawn from all the texts over the characters it looks at, up to a  *)
(* length.  The extractors look at braces, the sanitizers at the pieces of *)
(* the markers.                                                            *)
(***************************************************************************)
MaxBraces == 5
MaxMarks == 8

\* All the texts of at most n tokens of an alphabet.
RECURSIVE TextsOver(_, _)
TextsOver(alphabet, n) ==
    IF n = 0 THEN {<<>>}
    ELSE LET shorter == TextsOver(alphabet, n - 1)
         IN  shorter \cup {Append(t, a) : t \in {u \in shorter : Len(u) = n - 1},
                                          a \in alphabet}

BraceTexts == TextsOver({LBrace, RBrace, Prose}, MaxBraces)
MarkerTexts == TextsOver({"<!--", "CONTEXT", "-->"}, MaxMarks)

\* stripHidden of the chat page, for a string.
stripHidden(s) == StripFrom(s, 1)

Result(op, val) == [op |-> op, val |-> val]

InitFun ==
    /\ route = "retry"
    /\ pc = "start"
    /\ steps = JUndef
    /\ i = 0
    /\ toolsLog = <<>>
    /\ stepsLog = <<>>
    /\ full = <<>>
    /\ out = <<>>
    /\ calls = <<>>
    /\ toolRuns = <<>>
    /\ replies = <<>>
    /\ lastReply = NoReply
    /\ messages = FirstRequest
    /\ cancelled = NotCancelled
    /\ apiKey = TRUE
    /\ input \in BraceTexts \cup MarkerTexts
    /\ result = NoResult
    /\ other = NoRequest
    /\ running = 1
    /\ client = NoClient

ApplyFirstObject ==
    /\ result = NoResult
    /\ result' = Result("firstObject", firstObject(input))
    /\ UNCHANGED <<input, other, running, client, handlerVars>>

ApplyFirstJson ==
    /\ result = NoResult
    /\ result' = Result("firstJson", firstJson(input))
    /\ UNCHANGED <<input, other, running, client, handlerVars>>

ApplyStripContext ==
    /\ result = NoResult
    /\ result' = Result("stripContext", stripContext(input))
    /\ UNCHANGED <<input, other, running, client, handlerVars>>

ApplyStripCtx ==
    /\ result = NoResult
    /\ result' = Result("stripCtx", stripCtx(input))
    /\ UNCHANGED <<input, other, running, client, handlerVars>>

ApplyStripHidden ==
    /\ result = NoResult
    /\ result' = Result("stripHidden", stripHidden(input))
    /\ UNCHANGED <<input, other, running, client, handlerVars>>

NextFun ==
    \/ ApplyFirstObject
    \/ ApplyFirstJson
    \/ ApplyStripContext
    \/ ApplyStripCtx
    \/ ApplyStripHidden

FunSpec == InitFun /\ [][NextFun]_vars

(***************************************************************************)
(* streamLLM of the streaming route, as the generator it is: the response  *)
(* body arrives in read chunks of any sizes, buf carries the unfinished    *)
(* line from one read to the next.  A body is a sequence of tokens; the    *)
(* prefix 'data: ' is two tokens, so that a read can end inside it.        *)
(***************************************************************************)
MaxLines == 3

CR == "\\r"
LF == "\\n"
DataPrefix == <<"da", "ta: ">>
DoneMark == "[DONE]"
ContentA == "{choices:[{delta:{content:a}}]}"
ContentB == "{choices:[{delta:{content:b}}]}"
ContentEmpty == "{choices:[{delta:{content:''}}]}"
Malformed == "{choices:"

\* The pieces a response body is made of: data lines ended by \n or \r\n,
\* a blank line, a line that is not data, and two unfinished lines.
BodyPieces ==
    { DataPrefix \o <<ContentA, LF>>,
      DataPrefix \o <<ContentB, CR, LF>>,
      DataPrefix \o <<ContentEmpty, LF>>,
      DataPrefix \o <<Malformed, LF>>,
      DataPrefix \o <<DoneMark, LF>>,
      <<LF>>,
      <<"da", ContentA, LF>>,
      DataPrefix \o <<ContentB>>,
      DataPrefix \o <<Space, DoneMark, Space>> }

RECURSIVE BodiesOf(_)
BodiesOf(n) ==
    IF n = 0 THEN {<<>>}
    ELSE LET shorter == BodiesOf(n - 1)
         IN  shorter \cup {b \o p : b \in shorter, p \in BodyPieces}

Bodies == BodiesOf(MaxLines)

\* buf.split(/\r?\n/): the lines of a text, the unfinished last one included.
RECURSIVE SplitLines(_, _)
SplitLines(s, line) ==
    IF s = <<>> THEN <<line>>
    ELSE IF Head(s) = LF
    THEN LET ended == IF line # <<>> /\ line[Len(line)] = CR
                      THEN SubSeq(line, 1, Len(line) - 1) ELSE line
         IN  <<ended>> \o SplitLines(Tail(s), <<>>)
    ELSE SplitLines(Tail(s), Append(line, Head(s)))

\* String.prototype.trim, where the white space is ' ' and \r.
RECURSIVE TrimWhite(_)
TrimWhite(s) ==
    IF s # <<>> /\ Head(s) \in {Space, CR} THEN TrimWhite(Tail(s))
    ELSE IF s # <<>> /\ s[Len(s)] \in {Space, CR}
    THEN TrimWhite(SubSeq(s, 1, Len(s) - 1))
    ELSE s

\* line.startsWith('data: ')
IsDataLine(line) == Len(line) >= 2 /\ SubSeq(line, 1, 2) = DataPrefix
\* line.slice(6).trim()
Payload(line) == TrimWhite(SubSeq(line, 3, Len(line)))

\* try { j = JSON.parse(payload); delta = j.choices?.[0]?.delta?.content;
\* if (delta) yield delta } catch {}: what one payload yields.
YieldOf(payload) ==
    IF payload = <<ContentA>> THEN <<"a">>
    ELSE IF payload = <<ContentB>> THEN <<"b">>
    ELSE <<>>

\* The for loop over the finished lines of one read, from `lines` on, up to
\* the point where the generator stops running: its next yield (with the
\* lines still to be looked at), its return at a [DONE] line, or the end of
\* the lines.
RECURSIVE ForLines(_)
ForLines(lines) ==
    IF lines = <<>>
    THEN [at |-> "end", delta |-> <<>>, rest |-> <<>>]
    ELSE IF ~IsDataLine(Head(lines)) THEN ForLines(Tail(lines))
    ELSE IF Payload(Head(lines)) = <<DoneMark>>
    THEN [at |-> "return", delta |-> <<>>, rest |-> <<>>]
    ELSE IF YieldOf(Payload(Head(lines))) = <<>> THEN ForLines(Tail(lines))
    ELSE [at |-> "yield", delta |-> YieldOf(Payload(Head(lines))),
          rest |-> Tail(lines)]

\* (a reader that keeps no unfinished line)
PopNothing(lines) == [lines |-> lines, buf |-> <<>>]
\* buf = lines.pop()
Pop(lines) ==
    [lines |-> SubSeq(lines, 1, Len(lines) - 1), buf |-> lines[Len(lines)]]

\* The generator: "reading" while it awaits reader.read(), "yielded" while
\* it is suspended at a yield of the line loop (with the lines of the read
\* that it has not looked at yet), "flushed" while it is suspended at the
\* yield of the trailing buffer, "returned" after a [DONE] line, "ended" after
\* the last statement, "stopped" when its consumer left the loop at a yield.
Reader(state, pos, buf, lines, yielded) ==
    [op |-> "streamLLM", state |-> state, pos |-> pos, buf |-> buf,
     lines |-> lines, yielded |-> yielded]

\* The generator runs the line loop from `lines` on.
RunLines(r, pos, buf, lines) ==
    LET loop == ForLines(lines) IN
    CASE loop.at = "yield" ->
            Reader("yielded", pos, buf, loop.rest, r.yielded \o loop.delta)
      [] loop.at = "return" -> Reader("returned", pos, buf, <<>>, r.yielded)
      [] OTHER              -> Reader("reading", pos, buf, <<>>, r.yielded)

InitReader ==
    /\ route = "stream"
    /\ pc = "stream"
    /\ steps = JUndef
    /\ i = 0
    /\ toolsLog = <<>>
    /\ stepsLog = <<>>
    /\ full = <<>>
    /\ out = <<>>
    /\ calls = <<>>
    /\ toolRuns = <<>>
    /\ replies = <<>>
    /\ lastReply = NoReply
    /\ messages = FirstRequest
    /\ cancelled = NotCancelled
    /\ apiKey = TRUE
    /\ input \in Bodies
    /\ result = Reader("reading", 0, <<>>, <<>>, <<>>)
    /\ other = NoRequest
    /\ running = 1
    /\ client = NoClient

\* reader.read() gave a chunk, the next n tokens of the body: the generator
\* runs to its next yield, to its return or to its next read.
ReaderRead ==
    /\ result.op = "streamLLM"
    /\ result.state = "reading"
    /\ \E n \in 1..(Len(input) - result.pos) :
         LET value == SubSeq(input, result.pos + 1, result.pos + n)
             split == Pop(SplitLines(result.buf \o value, <<>>))
         IN  result' = RunLines(result, result.pos + n, split.buf, split.lines)
    /\ UNCHANGED <<input, other, running, client, handlerVars>>

\* The consumer asks for the next delta: the generator goes on after its
\* yield, with the lines left of the same read, or ends after the yield of
\* the trailing buffer.
ReaderResume ==
    /\ result.op = "streamLLM"
    /\ \/ /\ result.state = "yielded"
          /\ result' = RunLines(result, result.pos, result.buf, result.lines)
       \/ /\ result.state = "flushed"
          /\ result' = Reader("ended", result.pos, <<>>, <<>>, result.yielded)
    /\ UNCHANGED <<input, other, running, client, handlerVars>>

\* The consumer leaves its for await loop at a delta (its send threw): the
\* generator is closed at the yield and runs no further.
ReaderStop ==
    /\ result.op = "streamLLM"
    /\ result.state \in {"yielded", "flushed"}
    /\ result' = [result EXCEPT !.state = "stopped"]
    /\ UNCHANGED <<input, other, running, client, handlerVars>>

\* reader.read() gave done: the trailing buffer is flushed.
ReaderEnd ==
    /\ result.op = "streamLLM"
    /\ result.state = "reading"
    /\ result.pos = Len(input)
    /\ LET flushed == IF IsDataLine(result.buf)
                         /\ Payload(result.buf) # <<DoneMark>>
                      THEN YieldOf(Payload(result.buf)) ELSE <<>>
       IN  result' = IF flushed = <<>>
                     THEN Reader("ended", result.pos, <<>>, <<>>, result.yielded)
                     ELSE Reader("flushed", result.pos, <<>>, <<>>,
                                 result.yielded \o flushed)
    /\ UNCHANGED <<input, other, running, client, handlerVars>>

NextReader ==
    \/ ReaderRead
    \/ ReaderResume
    \/ ReaderStop
    \/ ReaderEnd

ReaderSpec == InitReader /\ [][NextReader]_vars

(***************************************************************************)
(* normalizeCanvasUrl of the chat page.  A URL is a sequence of tokens:    *)
(* the origin, '/', the suffix '/api/v1' in two spellings, and a blank.    *)
(***************************************************************************)
MaxUrl == 4

Origin == "https://school.instructure.com"
Slash == "/"
CANVAS_API_SUFFIX == "/api/v1"
UpperSuffix == "/API/V1"

UrlTexts == TextsOver({Origin, Slash, CANVAS_API_SUFFIX, UpperSuffix, Space}, MaxUrl)

\* toLowerCase, of a token
ToLowerCase(t) == IF t = UpperSuffix THEN CANVAS_API_SUFFIX ELSE t

\* s.endsWith(t), case ignored or not
EndsWith(s, t, ignoreCase) ==
    /\ s # <<>>
    /\ (IF ignoreCase THEN ToLowerCase(s[Len(s)]) ELSE s[Len(s)]) = t

normalizeCanvasUrl(value) ==
    LET trimmed == Trim(value)
        cleaned == IF EndsWith(trimmed, Slash, FALSE)
                   THEN SubSeq(trimmed, 1, Len(trimmed) - 1) ELSE trimmed
    IN  IF EndsWith(cleaned, CANVAS_API_SUFFIX, TRUE)
        THEN SubSeq(cleaned, 1, Len(cleaned) - 1) ELSE cleaned

InitUrl ==
    /\ route = "retry"
    /\ pc = "start"
    /\ steps = JUndef
    /\ i = 0
    /\ toolsLog = <<>>
    /\ stepsLog = <<>>
    /\ full = <<>>
    /\ out = <<>>
    /\ calls = <<>>
    /\ toolRuns = <<>>
    /\ replies = <<>>
    /\ lastReply = NoReply
    /\ messages = FirstRequest
    /\ cancelled = NotCancelled
    /\ apiKey = TRUE
    /\ input \in UrlTexts
    /\ result = NoResult
    /\ other = NoRequest
    /\ running = 1
    /\ client = NoClient

ApplyNormalizeCanvasUrl ==
    /\ result = NoResult
    /\ result' = Result("normalizeCanvasUrl", normalizeCanvasUrl(input))
    /\ UNCHANGED <<input, other, running, client, handlerVars>>

NextUrl == ApplyNormalizeCanvasUrl

UrlSpec == InitUrl /\ [][NextUrl]_vars

(***************************************************************************)
(* The credentials dialog of the chat page.  An action is the handler and  *)
(* the effects that the state it sets makes run.  The NEXT_PUBLIC_*        *)
(* defaults are not set.                                                   *)
(***************************************************************************)
PendingUrls ==
    {<<Origin>>, <<Origin, Slash>>, <<Origin, CANVAS_API_SUFFIX, Slash>>,
     <<Space, Origin, UpperSuffix>>}

InitCred ==
    /\ route = "retry"
    /\ pc = "start"
    /\ steps = JUndef
    /\ i = 0
    /\ toolsLog = <<>>
    /\ stepsLog = <<>>
    /\ full = <<>>
    /\ out = <<>>
    /\ calls = <<>>
    /\ toolRuns = <<>>
    /\ replies = <<>>
    /\ lastReply = NoReply
    /\ messages = FirstRequest
    /\ cancelled = NotCancelled
    /\ apiKey = TRUE
    /\ input = <<>>
    /\ result = NoResult
    /\ other = NoRequest
    /\ running = 1
    /\ client \in {ClientPage(NullCredentials), ClientPage(SavedCredentials)}

\* openCredentials: the buttons of the header and of the credentials bar.
ClientOpenCredentials ==
    /\ ~JobPending
    /\ client.pc = "page"
    /\ client' = [client EXCEPT !.credentialsOpen = TRUE]
    /\ UNCHANGED <<input, result, other, running, handlerVars>>

\* closeCredentials: the Cancel button of the dialog.
ClientCloseCredentials ==
    /\ ~JobPending
    /\ client.credentialsOpen
    /\ client' = [client EXCEPT !.credentialsOpen = FALSE]
    /\ UNCHANGED <<input, result, other, running, handlerVars>>

\* handleCredentialSave, and the persist effect on the new credentials.  The
\* form is rendered while credentialsOpen only; with an empty URL or key the
\* handler sets the error text and returns.
ClientSaveCredentials ==
    /\ ~JobPending
    /\ client.credentialsOpen
    /\ \E pending \in PendingUrls :
         LET url == Trim(pending)
             key == <<"token">>
             saved == CanvasCredentials(normalizeCanvasUrl(url), key)
         IN  /\ url # <<>>
             /\ client' = [client EXCEPT !.credentials = saved,
                                         !.stored = StorageOf(saved),
                                         !.credentialsOpen = FALSE]
    /\ UNCHANGED <<input, result, other, running, handlerVars>>

\* clearCredentials, and the persist effect on null.  The Clear button is
\* rendered while there are credentials.
ClientClearCredentials ==
    /\ ~JobPending
    /\ client.credentials # NullCredentials
    /\ client' = [client EXCEPT !.credentials = NullCredentials,
                                !.stored = StorageOf(NullCredentials)]
    /\ UNCHANGED <<input, result, other, running, handlerVars>>

\* send without credentials: the dialog opens, nothing is sent.
ClientSendNoCredentials ==
    /\ ~JobPending
    /\ ~client.loading
    /\ client.credentials = NullCredentials
    /\ client' = [client EXCEPT !.credentialsOpen = TRUE]
    /\ UNCHANGED <<input, result, other, running, handlerVars>>

NextCred ==
    \/ NextClient
    \/ ClientOpenCredentials
    \/ ClientCloseCredentials
    \/ ClientSaveCredentials
    \/ ClientClearCredentials
    \/ ClientSendNoCredentials

CredSpec == InitCred /\ [][NextCred]_vars

(***************************************************************************)
(* Reading the history.                                                    *)
(***************************************************************************)
Closed == pc = "closed"

\* The typed events written so far (the sentinel is not one), and those that
\* are not status events.
IsEvent(e)  == e.type # "[DONE]"
NotStatus(e) == e.type \notin {"status", "[DONE]"}
Events == SelectSeq(out, IsEvent)
Typed  == SelectSeq(out, NotStatus)

CountType(type) == Cardinality({k \in 1..Len(out) : out[k].type = type})

FailureKinds == {"http_error", "bad_json", "no_choices", "null_content", "read_failed"}

\* No model call and no tool call of the request has failed.
NoCallFailed ==
    /\ \A k \in 1..Len(replies) : replies[k].resp \notin FailureKinds
    /\ \A k \in 1..Len(toolRuns) : toolRuns[k].outcome \in {"json", "pending"}

\* ev is one plan event, k step events with the indices 0..k-1, summary_chunk
\* events, and one summary event at the end.
Shaped(ev, k) ==
    /\ Len(ev) >= k + 2
    /\ ev[1].type = "plan"
    /\ \A j \in 1..k : ev[1 + j].type = "step" /\ ev[1 + j].index = j - 1
    /\ \A j \in (k + 2)..(Len(ev) - 1) : ev[j].type = "summary_chunk"
    /\ ev[Len(ev)].type = "summary"

\* The reply that made step j final carried a true done (prose taken as the
\* result counts: execStep sets done).
FinalWithDone(j) ==
    \E k \in 1..Len(replies) :
        /\ replies[k].phase = "step"
        /\ replies[k].index = j
        /\ replies[k].kind \in {"final", "fallback"}
        /\ replies[k].done

\* C1 as stated: a request that produced a plan of N steps and in which no call
\* failed emits plan, N step events with the indices 0..N-1, summary_chunk
\* events, and one summary event.
C1_EventOrderOriginal ==
    (Closed /\ steps.t = "array" /\ NoCallFailed) => Shaped(Typed, NumSteps)

\* C1 as amended: the step events are those of the first k steps, with the
\* indices 0..k-1 in order; k = N, except that the retry-loop route stops
\* after step k-1 < N-1 when the reply that made it final had done true.
C1_EventOrder ==
    (Closed /\ steps.t = "array" /\ NoCallFailed) =>
        \E k \in 0..NumSteps :
            /\ Shaped(Typed, k)
            /\ \/ k = NumSteps
               \/ route = "retry" /\ k >= 1 /\ FinalWithDone(k - 1)

\* C1 witness: a two-step plan of the retry-loop route that ended after step 0
\* because its reply was done, with no failure.
C1_Witness ==
    /\ Closed /\ route = "retry" /\ steps.t = "array" /\ NoCallFailed
    /\ NumSteps = 2
    /\ Shaped(Typed, 1)
    /\ FinalWithDone(0)

(***************************************************************************)
(* The step loop of the retry-loop route, read from the history.           *)
(***************************************************************************)
IsStepItem(x) == x.phase = "step"
StepCalls   == SelectSeq(calls, IsStepItem)
StepReplies == SelectSeq(replies, IsStepItem)

ToolRepliesAt(j) ==
    Cardinality({k \in 1..Len(StepReplies) :
                    StepReplies[k].index = j /\ StepReplies[k].kind = "tool"})
FinalRepliesAt(j) ==
    Cardinality({k \in 1..Len(StepReplies) :
                    /\ StepReplies[k].index = j
                    /\ StepReplies[k].kind \in {"final", "fallback"}})
ToolRunsAt(j) ==
    Cardinality({k \in 1..Len(toolRuns) : toolRuns[k].index = j})
StepCallsAt(j) ==
    Cardinality({k \in 1..Len(StepCalls) : StepCalls[k].index = j})
StepEventsAt(j) ==
    Cardinality({k \in 1..Len(out) : out[k].type = "step" /\ out[k].index = j})
ReturnedRuns ==
    Cardinality({k \in 1..Len(toolRuns) : toolRuns[k].outcome # "failed"})

\* C2: in the retry-loop route, once the replies for step j are k tool
\* requests followed by a non-tool reply, exactly k tools have run for it and
\* their k results are in the tool log, the step log holds one entry for j
\* (the j-th), k+1 model calls were made for j, and the loop has left j for
\* j+1 (or for the summary).
C2_RetryAdvancesLogNotIndex ==
    (route = "retry" /\ steps.t = "array") =>
        /\ Len(toolsLog) = ReturnedRuns
        /\ Len(stepsLog) =
              Cardinality({k \in 1..Len(StepReplies) :
                              StepReplies[k].kind \in {"final", "fallback"}})
        /\ \A j \in 0..(NumSteps - 1) :
              FinalRepliesAt(j) >= 1 =>
                  /\ ToolRunsAt(j) = ToolRepliesAt(j)
                  /\ \A k \in 1..Len(toolRuns) :
                        toolRuns[k].index = j => toolRuns[k].outcome # "failed"
                  /\ FinalRepliesAt(j) = 1
                  /\ Len(stepsLog) >= j + 1
                  /\ stepsLog[j + 1].step = steps.v[j + 1]
                  /\ StepCallsAt(j) = ToolRepliesAt(j) + 1
                  /\ pc = "step" => i > j

\* C2 witness: two tool requests for step 0, then a reply with only a result;
\* the loop is at step 1.
C2_Witness ==
    /\ route = "retry" /\ pc = "step" /\ i = 1
    /\ ToolRepliesAt(0) = 2 /\ FinalRepliesAt(0) = 1
    /\ Len(toolsLog) = 2 /\ Len(stepsLog) = 1
    /\ lastReply.content = <<LBrace, "result:r", RBrace>>

\* C3: in the retry-loop route every step call is made for the index that
\* equals the number of step-log entries; from one step call to the next the
\* index stays when the reply asked for a tool (and the step log is left
\* alone), and rises by one when the reply was recorded in the step log.
C3_IndexFollowsStepLog ==
    route = "retry" =>
        /\ pc = "step" => i = Len(stepsLog)
        /\ \A k \in 1..Len(StepCalls) :
              StepCalls[k].index = Len(StepCalls[k].stepsLog)
        /\ \A k \in 1..(Len(StepCalls) - 1) :
              IF StepReplies[k].kind = "tool"
              THEN /\ StepCalls[k + 1].index = StepCalls[k].index
                   /\ StepCalls[k + 1].stepsLog = StepCalls[k].stepsLog
              ELSE /\ StepReplies[k].kind \in {"final", "fallback"}
                   /\ StepCalls[k + 1].index = StepCalls[k].index + 1
                   /\ Len(StepCalls[k + 1].stepsLog) = Len(StepCalls[k].stepsLog) + 1

\* C3 witness: the call for step 1 is being retried after a tool, and step 0
\* needed a tool as well.
C3_Witness ==
    /\ route = "retry" /\ pc = "step" /\ i = 1
    /\ ToolRunsAt(0) >= 1 /\ ToolRunsAt(1) >= 1
    /\ Len(stepsLog) = 1

\* C4: at most one summary event is ever written; once it is written it is
\* the last event and the stream is closed; a closed stream holds exactly one.
C4_OneSummaryLast ==
    /\ CountType("summary") <= 1
    /\ CountType("summary") = 1 =>
          /\ Closed
          /\ Events[Len(Events)].type = "summary"
    /\ Closed => CountType("summary") = 1

\* C4 witness: a request that failed in the step phase, after its plan event,
\* and was closed with its summary.
C4_Witness ==
    /\ Closed
    /\ CountType("plan") = 1
    /\ Len(replies) >= 2 /\ replies[Len(replies)].kind = "threw"
    /\ Events[Len(Events)].type = "summary" /\ Events[Len(Events)].error

LastReply == replies[Len(replies)]
LastEvent == Events[Len(Events)]
IsErrorValue(x) == x.t = "object" /\ "error" \in DOMAIN x.v

\* C5: in the retry-loop route every tool execution that fails (the process
\* fails, or its output is not JSON) leaves a structured error value in the
\* tool log and the same step is called again; it does not end the request.
C5_ToolFailureAbsorbed ==
    route = "retry" =>
        \A k \in 1..Len(toolRuns) :
            toolRuns[k].outcome \in {"failed", "not_json"} =>
                /\ Len(toolsLog) >= k
                /\ IsErrorValue(toolsLog[k].result)
                /\ (k = Len(toolRuns) /\ LastReply.kind = "tool") =>
                      /\ pc = "step"
                      /\ i = toolRuns[k].index
                      /\ CountType("summary") = 0

\* C6: a failed model call (a non-success response or a malformed envelope)
\* is the last thing the request does: no later model call, the stream closed,
\* and one summary event with error true at its end.
C6_ModelFailureEndsRequest ==
    \A k \in 1..Len(replies) :
        replies[k].resp \in FailureKinds =>
            /\ k = Len(replies)
            /\ Len(calls) = k
            /\ Closed
            /\ CountType("summary") = 1
            /\ LastEvent.type = "summary" /\ LastEvent.error

\* C7: in the retry-loop route a plan reply without an extractable JSON object
\* gives exactly a status event and a summary event without error flag whose
\* text is the sanitized, trimmed reply; no other model call, no tool.
C7_PlanShortCircuit ==
    (/\ route = "retry"
     /\ Len(replies) = 1
     /\ lastReply.kind \in {"ok", "empty"}
     /\ ~firstObject(lastReply.content).found) =>
        /\ Closed
        /\ Events = <<Status("Planning", 0, 0),
                      SummaryEvent(Trim(stripContext(lastReply.content)),
                                   NoCtx, FALSE)>>
        /\ Len(calls) = 1
        /\ toolRuns = <<>>

\* A plan reply with a usable plan: an object that parses and has a non-empty
\* steps array.
UsablePlan(text) ==
    LET obj    == IF route = "retry" THEN firstObject(text) ELSE firstJson(text)
        parsed == JsonParse(obj.str)
    IN  /\ obj.found
        /\ parsed.ok
        /\ Get(parsed.val.v, "steps").t = "array"
        /\ Len(Get(parsed.val.v, "steps").v) # 0

\* C8: in both routes every malformed plan reply is taken as a direct answer:
\* the request ends with a summary event without error flag and without a
\* plan event.
C8_MalformedPlanIsDirect ==
    (/\ Len(replies) = 1
     /\ lastReply.kind \in {"ok", "empty"}
     /\ ~UsablePlan(lastReply.content)) =>
        /\ Closed
        /\ CountType("plan") = 0
        /\ LastEvent.type = "summary" /\ ~LastEvent.error

\* C9: in the retry-loop route a step reply without an extractable, parseable
\* object is recorded as the final result of its step, done: one step-log entry
\* and one step event for that index, with the sanitized trimmed text; the
\* next call is the summary call; and unless that call fails the request ends
\* with a summary event without error flag.
C9_ProseStepIsFinal ==
    route = "retry" =>
        /\ (/\ replies # <<>>
            /\ LastReply.phase = "step"
            /\ lastReply.kind \in {"ok", "empty"}
            /\ IsFallback(lastReply)) =>
               LET j    == LastReply.index
                   text == JStr(Trim(stripContext(lastReply.content)))
               IN  /\ LastReply.kind = "fallback"
                   /\ Len(stepsLog) = j + 1
                   /\ stepsLog[j + 1] = [step |-> steps.v[j + 1], output |-> text]
                   /\ StepEventsAt(j) = 1
                   /\ \E k \in 1..Len(out) : out[k] = StepEvent(j, steps.v[j + 1], text)
                   /\ pc = "summary"
                   /\ calls[Len(calls)].phase = "summary"
                   /\ CountType("summary") = 0
                   /\ lastReply.content = <<Space, Prose>> => text = JStr(<<Prose>>)
                   /\ lastReply.content = HiddenRegion \o <<Space>> => text = JStr(<<>>)
        /\ \A k \in 1..Len(replies) :
              replies[k].kind = "fallback" =>
                  /\ k < Len(replies) =>
                        /\ Len(replies) = k + 1
                        /\ replies[k + 1].phase = "summary"
                  /\ (Closed /\ LastReply.resp \notin FailureKinds) =>
                        LastEvent.type = "summary" /\ ~LastEvent.error

\* C9 witness: step 0 of a two-step plan was answered in prose around a hidden
\* region, and the request ended with its summary.
C9_Witness ==
    /\ route = "retry" /\ Closed /\ steps.t = "array" /\ NumSteps = 2
    /\ Len(replies) = 3 /\ replies[2].kind = "fallback" /\ replies[2].index = 0
    /\ stepsLog = <<[step |-> StepA, output |-> JStr(<<Prose>>)]>>
    /\ LastEvent.type = "summary" /\ ~LastEvent.error

\* C10: the tool executions of a request stay under a ceiling: a request whose
\* every step reply asks for a tool has been ended with an error summary by
\* the time it has run MaxToolRuns tools.
C10_ToolCeiling ==
    (/\ route = "retry"
     /\ Len(toolRuns) = MaxToolRuns
     /\ \A k \in 1..Len(StepReplies) : StepReplies[k].kind = "tool"
     /\ \A k \in 1..Len(toolRuns) : toolRuns[k].outcome = "json") =>
        /\ Closed
        /\ LastEvent.type = "summary" /\ LastEvent.error

\* C11: when every model call and tool call returns and the model gives a
\* non-tool reply for each plan index after at most MaxToolRuns tool requests,
\* the request eventually emits its summary event and closes the stream.
C11_EventuallySummary == <>(Closed /\ CountType("summary") = 1)

\* C11 witness: both steps of a two-step plan needed a tool before their
\* non-tool reply, and the request has ended with its summary.
C11_Witness ==
    /\ route = "retry" /\ Closed /\ steps.t = "array" /\ NumSteps = 2
    /\ ToolRepliesAt(0) >= 1 /\ FinalRepliesAt(0) = 1
    /\ ToolRepliesAt(1) >= 1 /\ FinalRepliesAt(1) = 1
    /\ CountType("summary") = 1 /\ ~LastEvent.error

\* C12: once the client has cancelled, the handler starts no model call and
\* no tool execution, writes nothing to the stream, and ends without a
\* summary event.
C12_CancelStopsHandler ==
    cancelled.is =>
        /\ Len(calls) = cancelled.calls
        /\ Len(toolRuns) = cancelled.runs
        /\ Len(out) = cancelled.events
        /\ CountType("summary") = 0

IsPrefix(a, b) == Len(a) <= Len(b) /\ SubSeq(b, 1, Len(a)) = a

\* C13: every step of a request leaves the tool log and the step log as they
\* were or adds one entry at the end: the earlier value is a prefix of the
\* later one, so no entry is changed or removed.
C13_LogsAppendOnly ==
    [][/\ IsPrefix(toolsLog, toolsLog')
       /\ IsPrefix(stepsLog, stepsLog')
       /\ Len(toolsLog') <= Len(toolsLog) + 1
       /\ Len(stepsLog') <= Len(stepsLog) + 1]_vars

\* C13 witness: both logs hold two entries that differ.
C13_Witness ==
    /\ route = "retry"
    /\ Len(toolsLog) >= 2 /\ toolsLog[1] # toolsLog[2]
    /\ Len(stepsLog) >= 2 /\ stepsLog[1] # stepsLog[2]

\* C14: in the retry-loop route, after the non-tool reply recorded for index
\* j of a plan of length L, the next model call is the summary call, and no
\* step call follows, when the reply had done true or j = L-1; otherwise the
\* next model call is the step call for j+1.
C14_BreakOrAdvance ==
    (route = "retry" /\ steps.t = "array") =>
        \A k \in 1..Len(replies) :
            (replies[k].phase = "step" /\ replies[k].kind \in {"final", "fallback"}) =>
                /\ Len(calls) >= k + 1
                /\ IF replies[k].done \/ replies[k].index = NumSteps - 1
                   THEN /\ calls[k + 1].phase = "summary"
                        /\ \A m \in (k + 1)..Len(calls) : calls[m].phase # "step"
                   ELSE /\ calls[k + 1].phase = "step"
                        /\ calls[k + 1].index = replies[k].index + 1

\* C14 witness: in a plan of two steps the parsed reply for index 0 had done
\* true, and the summary call followed it.
C14_Witness ==
    /\ route = "retry" /\ steps.t = "array" /\ NumSteps = 2
    /\ Len(replies) >= 2 /\ Len(calls) >= 3
    /\ replies[2].kind = "final" /\ replies[2].index = 0 /\ replies[2].done
    /\ calls[3].phase = "summary"

\* What the m-th tool execution returned.
ResultOfRun(m) ==
    LET run     == toolRuns[m]
        outcome == CHOOSE o \in ToolOutcomes \cup RefusedOutcomes :
                       o.kind = run.outcome
    IN  runTool(run.tool, run.params, outcome).value

\* The replies of a kind among the first n.
RepliesBefore(n, kinds) ==
    Cardinality({m \in 1..n : replies[m].phase = "step" /\ replies[m].kind \in kinds})

\* C15: in the retry-loop route every step call embeds the two logs as they
\* stand when it is issued: its tool log holds the result of every tool
\* execution requested before it, in call order, the latest included, and its
\* step log one entry per step made final before it.
C15_StepCallSeesLogs ==
    route = "retry" =>
        /\ \A k \in 1..Len(calls) :
              calls[k].phase = "step" =>
                  LET tl   == calls[k].toolsLog
                      runs == RepliesBefore(k - 1, {"tool"})
                  IN  /\ Len(tl) = runs
                      /\ \A m \in 1..runs :
                            /\ tl[m].tool = toolRuns[m].tool
                            /\ tl[m].result = ResultOfRun(m)
                      /\ Len(calls[k].stepsLog) =
                            RepliesBefore(k - 1, {"final", "fallback"})
        /\ pc = "step" =>
              /\ calls[Len(calls)].toolsLog = toolsLog
              /\ calls[Len(calls)].stepsLog = stepsLog

\* C15 witness: the retried call for index 1 is out, holding the results of
\* the tool run for index 0 and of the one just run for index 1, which differ.
C15_Witness ==
    /\ route = "retry" /\ pc = "step" /\ i = 1
    /\ ToolRunsAt(0) = 1 /\ ToolRunsAt(1) = 1
    /\ LastReply.kind = "tool"
    /\ Len(calls[Len(calls)].toolsLog) = 2
    /\ calls[Len(calls)].toolsLog[1].result # calls[Len(calls)].toolsLog[2].result

SummaryCalls == {k \in 1..Len(calls) : calls[k].phase = "summary"}

\* The steps made final so far: the non-tool replies of the retry-loop route,
\* the tools that returned in the streaming route, the steps reported in the
\* older route (whose tool can be answered without an execution).
FinalizedSteps ==
    CASE route = "retry"  -> RepliesBefore(Len(replies), {"final", "fallback"})
      [] route = "stream" ->
            Cardinality({m \in 1..Len(toolRuns) :
                            toolRuns[m].outcome \in {"json", "error"}})
      [] OTHER            -> CountType("step")

\* C16: the summary call is issued at most once and is the last model call;
\* the step log it embeds is the step log as it stays to the end, with one
\* entry per step made final, in step order; and a request that emitted a
\* plan and ended without error has issued it exactly once.
C16_SummaryCallEmbedsStepLog ==
    /\ Cardinality(SummaryCalls) <= 1
    /\ \A k \in SummaryCalls :
          /\ k = Len(calls)
          /\ calls[k].stepsLog = stepsLog
          /\ Len(stepsLog) = FinalizedSteps
          /\ \A j \in 1..Len(stepsLog) : stepsLog[j].step = steps.v[j]
    /\ (Closed /\ CountType("plan") = 1 /\ ~LastEvent.error) =>
          Cardinality(SummaryCalls) = 1

\* C16 witness: a request of the retry-loop route ended without error after
\* both steps of its plan, and its summary call embedded the two entries.
C16_Witness ==
    /\ route = "retry" /\ Closed /\ ~LastEvent.error
    /\ Len(stepsLog) = 2
    /\ calls[Len(calls)].phase = "summary"
    /\ calls[Len(calls)].stepsLog = stepsLog

IsChunk(e) == e.type = "summary_chunk"
Chunks == SelectSeq(out, IsChunk)

RECURSIVE ConcatDeltas(_)
ConcatDeltas(evs) ==
    IF evs = <<>> THEN <<>> ELSE evs[1].delta \o ConcatDeltas(Tail(evs))

\* C17 as stated: in the streaming route a request that reached its summary
\* stream ends with a summary event whose text is the concatenation, in
\* order, of the summary_chunk deltas written.
C17_SummaryIsChunksOriginal ==
    (route # "retry" /\ Closed /\ SummaryCalls # {}) =>
        /\ LastEvent.type = "summary"
        /\ LastEvent.summary = ConcatDeltas(Chunks)

\* C17 as amended: in the streaming route (and in the older route) the text
\* accumulated from the deltas that streamLLM yielded is, at every moment, the
\* concatenation in order of the
\* summary_chunk events written; no summary_chunk event follows a summary
\* event; and when the model stream has ended without failure, the text of the
\* summary event is that concatenation.
C17_SummaryIsChunksConcatenated ==
    route # "retry" =>
        /\ full = ConcatDeltas(Chunks)
        /\ \A k \in 1..Len(out) :
              out[k].type = "summary_chunk" =>
                  /\ \A m \in 1..k : out[m].type # "summary"
                  /\ \E m \in 1..k : out[m] = Status("Finalising", 0, 0)
        /\ (/\ Closed /\ replies # <<>>
            /\ LastReply.phase = "summary" /\ LastReply.kind = "summary") =>
              /\ LastEvent.type = "summary" /\ ~LastEvent.error
              /\ LastEvent.summary = ConcatDeltas(Chunks)

\* C17 witness: two different deltas were streamed, and the request ended
\* with the summary event holding both.
C17_Witness ==
    /\ route = "stream" /\ Closed
    /\ Len(Chunks) = 2 /\ Chunks[1].delta # Chunks[2].delta
    /\ LastEvent.type = "summary" /\ ~LastEvent.error
    /\ LastEvent.summary = Chunks[1].delta \o Chunks[2].delta

\* A text that still holds a marker-delimited region.
HasRegion(s) == stripContext(s) # s

\* C18: the history given to every model call (plan, step, summary) holds no
\* message with a marker-delimited region in its content.
C18_HistorySanitized ==
    \A k \in 1..Len(calls) :
        \A m \in 1..Len(calls[k].history) :
            ~HasRegion(calls[k].history[m].content)

\* C19: no model call of a request is given a history in which the logs of an
\* earlier request (the serialised content of a hidden block) appear.
C19_LogsStayInRequest ==
    \A k \in 1..Len(calls) :
        \A m \in 1..Len(calls[k].history) :
            \A j \in 1..Len(calls[k].history[m].content) :
                calls[k].history[m].content[j] # LogsToken

\* C20: the history given to every model call is made of the MAX_HISTORY most
\* recent messages of the request, in their order, and of no other.
C20_HistoryWindow ==
    \A k \in 1..Len(calls) :
        LET h      == calls[k].history
            recent == SliceLast(messages, MAX_HISTORY)
        IN  /\ Len(h) <= MAX_HISTORY
            /\ Len(h) = Len(recent)
            /\ \A m \in 1..Len(h) :
                  /\ h[m].role = recent[m].role
                  /\ stripContext(h[m].content) = stripContext(recent[m].content)

\* C21: when the model credential is not configured, no request is sent to
\* the model backend, no tool is executed, no plan event and no step event is
\* emitted, and the stream ends with a summary whose error flag is true.
C21_NoKeyFailsFirst ==
    ~apiKey =>
        /\ calls = <<>>
        /\ toolRuns = <<>>
        /\ CountType("plan") = 0 /\ CountType("step") = 0
        /\ Closed => (LastEvent.type = "summary" /\ LastEvent.error)

\* C22: every tool execution is handed the credential fields of the request
\* (the Canvas URL and the API key), unmodified.
C22_CredentialsPassed ==
    \A k \in 1..Len(toolRuns) :
        toolRuns[k].credentials = RequestCredentials

\* The tool executions asked with a name outside the vocabulary.
UnknownRuns == {k \in 1..Len(toolRuns) : ~InVocabulary(toolRuns[k].tool)}

\* The step-log entry and the step event of the plan step at index j.
LoggedAt(j) == stepsLog[j + 1].output
ReportedAt(j) == {e \in {out[m] : m \in 1..Len(out)} : e.type = "step" /\ e.index = j}

Excess(s, n) ==
    Cardinality({k \in 1..n : s[k] = LBrace})
        - Cardinality({k \in 1..n : s[k] = RBrace})

\* No unbalanced brace: every closing brace closes an earlier opening one and
\* every opening brace is closed.
Balanced(s) ==
    /\ \A n \in 0..Len(s) : Excess(s, n) >= 0
    /\ Excess(s, Len(s)) = 0

NoBrace(s) == \A k \in 1..Len(s) : s[k] \notin {LBrace, RBrace}

\* A balanced object: it starts with an opening brace, which its last token
\* closes.
IsObject(s) ==
    /\ Len(s) >= 2
    /\ s[1] = LBrace
    /\ \A n \in 1..(Len(s) - 1) : Excess(s, n) > 0
    /\ Excess(s, Len(s)) = 0

Extracted == result.op \in {"firstObject", "firstJson"}

\* The ways of cutting the input in prefix, object, suffix.
Cuts ==
    {c \in (0..Len(input)) \X (0..Len(input)) :
        c[1] < c[2] /\ IsObject(SubSeq(input, c[1] + 1, c[2]))}
CutPrefix(c) == SubSeq(input, 1, c[1])
CutObject(c) == SubSeq(input, c[1] + 1, c[2])
CutSuffix(c) == SubSeq(input, c[2] + 1, Len(input))

\* C24 as stated: for an input prefix + object + suffix, with a balanced
\* object and no unbalanced brace in prefix or suffix, the extractor returns
\* the object; for an input without an opening brace it returns null.
C24_ExtractsObjectOriginal ==
    Extracted =>
        /\ \A c \in Cuts :
              (Balanced(CutPrefix(c)) /\ Balanced(CutSuffix(c))) =>
                  result.val = Found(CutObject(c))
        /\ (\A k \in 1..Len(input) : input[k] # LBrace) => result.val = NotFound

\* C24: for an input prefix + object + suffix, with a balanced object and no
\* brace in the prefix, the extractor returns the object, whatever the
\* suffix; for an input without an opening brace it returns null.
C24_ExtractsObject ==
    Extracted =>
        /\ \A c \in Cuts :
              NoBrace(CutPrefix(c)) => result.val = Found(CutObject(c))
        /\ (\A k \in 1..Len(input) : input[k] # LBrace) => result.val = NotFound

\* C24 witness: an object was extracted from between a prose prefix and a
\* suffix that holds a closing brace.
C24_Witness ==
    /\ result.op = "firstObject"
    /\ input = <<Prose, LBrace, Prose, RBrace, RBrace>>
    /\ result.val = Found(<<LBrace, Prose, RBrace>>)

Sanitizers == {"stripContext", "stripCtx", "stripHidden"}

\* The sanitizer of a name, applied to a text.
Sanitize(op, s) ==
    CASE op = "stripContext" -> stripContext(s)
      [] op = "stripCtx"     -> stripCtx(s)
      [] OTHER               -> stripHidden(s)

\* C25: sanitizing a sanitized text changes nothing (stripContext, stripCtx
\* and stripHidden alike): what a sanitizer returns holds no complete
\* marker-delimited region.
C25_SanitizerIdempotent ==
    result.op \in Sanitizers =>
        Sanitize(result.op, result.val) = result.val

\* The position of the first opening brace of the input, or 0.
FirstOpen ==
    LET opens == {k \in 1..Len(input) : input[k] = LBrace}
    IN  IF opens = {} THEN 0 ELSE CHOOSE k \in opens : \A h \in opens : k <= h

\* The position of the closing brace that matches the opening brace at f, or
\* 0 when that brace is never closed.
MatchOf(f) ==
    LET ends == {n \in f..Len(input) : IsObject(SubSeq(input, f, n))}
    IN  IF ends = {} THEN 0 ELSE CHOOSE n \in ends : TRUE

\* C30: the extractor returns the text from the first opening brace of the
\* input to the closing brace that matches it, and null only when there is no
\* opening brace or the first one is never closed, whatever precedes the
\* first opening brace (closing braces included) and whatever follows the
\* matching closing brace.
C30_FromFirstOpenToItsMatch ==
    Extracted =>
        IF FirstOpen # 0 /\ MatchOf(FirstOpen) # 0
        THEN result.val = Found(SubSeq(input, FirstOpen, MatchOf(FirstOpen)))
        ELSE result.val = NotFound

\* C26: the sentinel is written at most once, and a stream that has been
\* closed ends with the summary event followed by the sentinel, whether the
\* request ended with a direct answer, a completed plan or an error.
C26_SentinelEndsStream ==
    /\ CountType("[DONE]") <= 1
    /\ Closed =>
          /\ Len(out) >= 2
          /\ out[Len(out)] = Sentinel
          /\ out[Len(out) - 1].type = "summary"

\* The model calls that have not returned, and the tool executions that have
\* not.
OutstandingCalls == Len(calls) - Len(replies)
PendingRuns == {k \in 1..Len(toolRuns) : toolRuns[k].outcome = "pending"}

\* C27: within a request at most one model call or tool execution is
\* outstanding; the first call is the plan call and no other is; no call
\* follows the summary call; step calls are made in the order of the steps;
\* and a tool execution starts only after the plan call has returned and
\* before the summary call is made.
C27_OneAtATime ==
    /\ OutstandingCalls \in {0, 1}
    /\ OutstandingCalls + Cardinality(PendingRuns) <= 1
    /\ \A k \in 1..Len(calls) :
          /\ calls[k].phase = "plan" <=> k = 1
          /\ calls[k].phase = "summary" => k = Len(calls)
          /\ \A m \in 1..k : calls[m].phase = "step" /\ calls[k].phase = "step"
                                  => calls[m].index <= calls[k].index
    /\ toolRuns # <<>> => (replies # <<>> /\ replies[1].phase = "plan")
    /\ PendingRuns # {} =>
          /\ PendingRuns = {Len(toolRuns)}
          /\ calls[Len(calls)].phase # "summary"
    /\ route = "retry" =>
          Len(toolRuns) = Cardinality({k \in 1..Len(replies) :
                                          replies[k].kind = "tool"})

\* C27 witness: a plan call, step calls with a tool execution between them
\* and the summary call have all been made and have returned, in a request
\* that ran two tools.
C27_Witness ==
    /\ Closed
    /\ Len(toolRuns) = 2
    /\ calls[Len(calls)].phase = "summary"
    /\ OutstandingCalls = 0 /\ PendingRuns = {}

\* The state of request id (1 or 2) when two requests are handled.
Req(id) == IF running = id THEN Loaded ELSE other

\* C28: when two requests are handled concurrently, the state of a request
\* (its tool log, its step log, the events it has written and the rest of its
\* handler's locals) changes only by a step of its own handler: no step of
\* the other request and no turn of the event loop from one to the other
\* changes it, so each runs as it would alone.
C28_RequestsIndependent ==
    [][\A id \in {1, 2} :
          \/ running = id /\ running' = id
          \/ Req(id)' = Req(id)]_vars

\* C28 witness: both requests are in flight, each awaiting a step call, with
\* tool logs of different lengths.
C28_Witness ==
    /\ running = 2
    /\ pc = "step" /\ other.pc = "step"
    /\ Len(toolsLog) = 1 /\ Len(other.toolsLog) = 2

\* What the page shows: the messages, the plan banner and its ticks, loading.
UI == [msgs |-> client.msgs, plan |-> client.plan, done |-> client.done,
       planVisible |-> client.planVisible, loading |-> client.loading]

\* The latest send was cancelled by the user and none has been made since.
LatestCancelled ==
    /\ client.sends # <<>>
    /\ client.sends[Len(client.sends)].by = "cancel"

\* C29: from the cancellation of an in-flight request to the next send (or
\* to the user's new chat, which clears the page), the last message is the
\* 'Stopped' message, loading is false, the plan banner is hidden, and
\* nothing the page shows changes: no event and no error of the cancelled
\* request reaches it.
C29_CancelledRequestIsSilent ==
    [][(LatestCancelled' /\ ~ClientNewChat) =>
          /\ LastOf(client.msgs)' = StoppedMsg
          /\ ~client.loading' /\ ~client.planVisible'
          /\ LatestCancelled => UI' = UI]_vars

\* C29 witness: a request that had streamed part of its summary was
\* cancelled, and its continuation has run.
C29_Witness ==
    /\ LatestCancelled
    /\ client.sends[Len(client.sends)].pc = "ended"
    /\ client.sends[Len(client.sends)].summaryRunning # <<>>
    /\ LastOf(client.msgs) = StoppedMsg

IsStepEvent(e) == e.type = "step"
StepEvents == SelectSeq(out, IsStepEvent)

\* The step events and the first entries of the step log agree, entry by
\* entry, up to what `same` says of the two outputs; the log holds at most
\* `slack` entries more.
StepEventsMatchLog(same(_, _), slack) ==
    /\ Len(StepEvents) <= Len(stepsLog)
    /\ Len(stepsLog) <= Len(StepEvents) + slack
    /\ \A k \in 1..Len(StepEvents) :
          /\ StepEvents[k].index = k - 1
          /\ StepEvents[k].step = stepsLog[k].step
          /\ same(StepEvents[k].output, stepsLog[k].output)

SameOutput(e, l) == e = l
\* The streaming route and the older route log JSON.stringify(out) and send
\* out.
LoggedOutput(e, l) == IF route # "retry" THEN l = JsonStringify(e) ELSE e = l

\* The events written by the step.
Written == SubSeq(out', Len(out) + 1, Len(out'))
StepsWritten == Cardinality({k \in 1..Len(Written) : Written[k].type = "step"})

\* C31 as stated: the step events are the step-log entries, one for one, with
\* the same index, step and output, written in the step that appends the
\* entry; and a step of the handler in which a tool was executed writes no
\* step event.
C31_StepEventPerLogEntryOriginal ==
    [][/\ StepEventsMatchLog(SameOutput, 0)'
       /\ Len(toolRuns') > Len(toolRuns) => StepsWritten = 0]_vars

\* C31: the step events are the first step-log entries, one for one, each
\* written in the step that appends its entry, with the same index and step
\* and with the output of the entry (which, in the streaming route and the
\* older route, is the JSON text of the event's output); only the last entry can lack its event,
\* and only when the client cancelled the stream before it; in the
\* retry-loop route a loop iteration in which a tool was executed writes no
\* step event, and only status events when the tool returned.
C31_StepEventPerLogEntry ==
    [][/\ StepEventsMatchLog(LoggedOutput, IF cancelled.is THEN 1 ELSE 0)'
       /\ StepsWritten <= Len(stepsLog') - Len(stepsLog)
       /\ ~cancelled.is => StepsWritten = Len(stepsLog') - Len(stepsLog)
       /\ (route = "retry" /\ Len(toolRuns') > Len(toolRuns)) =>
             /\ StepsWritten = 0
             /\ Len(toolsLog') > Len(toolsLog) =>
                   \A k \in 1..Len(Written) : Written[k].type = "status"]_vars

\* C31 witness: in the retry-loop route two steps were finalized after a tool
\* ran, and the request has ended.
C31_Witness ==
    /\ route = "retry" /\ Closed
    /\ Len(stepsLog) = 2 /\ Len(StepEvents) = 2
    /\ toolsLog # <<>>

\* The step reply just received, as execStep reads it.
StepReplyTaken == pc = "step" /\ replies' # replies
ActTaken == execStep(lastReply')
AsksTool == ~ActTaken.threw /\ IsToolRequest(ActTaken.value.v)

ToolRequestHandled(reissued) ==
    /\ Len(toolRuns') = Len(toolRuns) + 1
    /\ toolRuns'[Len(toolRuns')].tool = Get(ActTaken.value.v, "tool")
    /\ toolRuns'[Len(toolRuns')].index = i
    /\ stepsLog' = stepsLog
    /\ StepsWritten = 0
    /\ CountType("summary")' = IF reissued THEN 0 ELSE 1
    /\ reissued =>
          /\ pc' = "step" /\ i' = i
          /\ Len(calls') = Len(calls) + 1
          /\ calls'[Len(calls')].phase = "step"
          /\ calls'[Len(calls')].index = i

\* C32: in the retry-loop route a step reply with a non-empty tool field,
\* whatever else it carries, makes the handler execute that tool once for the
\* current index, append nothing to the step log, write no step event, start
\* no summary, and call the model again for the same index.
C32_ToolFieldWins ==
    [][(route = "retry" /\ StepReplyTaken /\ AsksTool)
          => ToolRequestHandled(TRUE)]_vars

\* The lines of the whole body that precede its first [DONE] line.
RECURSIVE BeforeDone(_)
BeforeDone(lines) ==
    IF lines = <<>> THEN <<>>
    ELSE IF IsDataLine(Head(lines)) /\ Payload(Head(lines)) = <<DoneMark>>
    THEN <<>>
    ELSE <<Head(lines)>> \o BeforeDone(Tail(lines))

\* The non-empty content deltas of the well-formed data lines among them.
RECURSIVE DeltasOf(_)
DeltasOf(lines) ==
    IF lines = <<>> THEN <<>>
    ELSE (IF IsDataLine(Head(lines)) THEN YieldOf(Payload(Head(lines)))
          ELSE <<>>) \o DeltasOf(Tail(lines))

ReaderOver == result.op = "streamLLM" /\ result.state \in {"returned", "ended"}

\* C33: however the body is split into read chunks, what streamLLM has
\* yielded is, after every yield, a prefix of the non-empty content deltas of
\* the well-formed data lines before the first [DONE] line, in their order,
\* and all of them once the generator is over; no payload makes it fail.
C33_YieldsDeltasBeforeDone ==
    LET expected == DeltasOf(BeforeDone(SplitLines(input, <<>>)))
    IN  result.op = "streamLLM" =>
          /\ IsPrefix(result.yielded, expected)
          /\ ReaderOver => result.yielded = expected

\* C33 witness: a body with a delta and a [DONE] line followed by another
\* delta was read in chunks, the last of which ended inside a line, and the
\* generator returned having yielded the first delta only.
C33_Witness ==
    /\ result.op = "streamLLM" /\ result.state = "returned"
    /\ input = DataPrefix \o <<ContentA, LF>> \o DataPrefix \o <<DoneMark, LF>>
                 \o DataPrefix \o <<ContentB, CR, LF>>
    /\ result.yielded = <<"a">>
    /\ result.buf # <<>>

\* The request in flight: the latest send, while it has not ended.
InFlight(k) == k = Len(client.sends) /\ client.sends[k].pc # "ended"

\* While loading, abortRef holds the controller of the request in flight,
\* not aborted; every earlier send has ended.
LoadingHasItsController ==
    /\ client.loading =>
          /\ client.abortRef # 0
          /\ InFlight(client.abortRef)
          /\ client.sends[client.abortRef].by = "none"
    /\ \A k \in 1..(Len(client.sends) - 1) : client.sends[k].pc = "ended"

\* C34: in the chat page, while loading is true abortRef holds the
\* controller of the request in flight, which is the latest send and is not
\* aborted; when a send starts every earlier send has ended, so that no
\* earlier request's finally, catch or abort handling is left to clear the
\* controller or the loading flag of a later one; and a cancel or new chat
\* while loading aborts the request in flight.
C34_AbortRefIsCurrent ==
    [][/\ LoadingHasItsController'
       /\ (client.loading /\ (ClientCancel \/ ClientNewChat)) =>
             /\ client'.sends[Len(client.sends)].by # "none"
             /\ ~client'.loading /\ client'.abortRef = 0]_vars

\* C34 witness: a second send is in flight after the first was cancelled and
\* its continuation ran.
C34_Witness ==
    /\ client.pc = "page" /\ client.loading
    /\ Len(client.sends) = 2
    /\ client.sends[1].by = "cancel" /\ client.sends[1].pc = "ended"
    /\ client.sends[2].pc = "read" /\ client.abortRef = 2

\* The conversation is user and assistant messages in turn.
InPairs ==
    \A k \in 1..Len(client.msgs) :
        client.msgs[k].role = IF k % 2 = 1 THEN "user" ELSE "assistant"

\* C35: in the chat page a send adds two messages to the conversation, the
\* user message and then one assistant message; every other step but a new
\* chat (an event of the stream, a stream error, a cancel, the end of a
\* request) leaves the conversation as long as it was and all its messages
\* but the last, an assistant message, as they were.
C35_OnlyLastMessageReplaced ==
    [][/\ InPairs'
       /\ ClientSend =>
             /\ Len(client'.msgs) = Len(client.msgs) + 2
             /\ SubSeq(client'.msgs, 1, Len(client.msgs)) = client.msgs
             /\ client'.msgs[Len(client.msgs) + 1].role = "user"
             /\ client'.msgs[Len(client.msgs) + 2].role = "assistant"
       /\ (~ClientSend /\ ~ClientNewChat) =>
             /\ Len(client'.msgs) = Len(client.msgs)
             /\ \A k \in 1..(Len(client.msgs) - 1) :
                   client'.msgs[k] = client.msgs[k]]_vars

\* C35 witness: after two sends, the first cancelled and the second showing
\* a partial summary, the conversation holds four messages.
C35_Witness ==
    /\ client.pc = "page"
    /\ Len(client.msgs) = 4
    /\ client.msgs[2] = StoppedMsg
    /\ client.msgs[4].content # <<>> /\ client.msgs[4].isLoading

\* C37: normalizeCanvasUrl returns a URL that ends neither with '/' nor with
\* '/api/v1' in any case, and that it returns unchanged when it is applied
\* to it again.
C37_NormalizeIdempotent ==
    result.op = "normalizeCanvasUrl" =>
        /\ ~EndsWith(result.val, Slash, FALSE)
        /\ ~EndsWith(result.val, CANVAS_API_SUFFIX, TRUE)
        /\ normalizeCanvasUrl(result.val) = result.val

\* C36: in the chat page, after every UI action and its effects,
\* sessionStorage holds the Canvas credentials exactly when the credentials
\* state is not null, and then it holds the value of the state.
C36_StorageMirrorsCredentials ==
    client.pc = "page" =>
        /\ (client.stored # Absent) = (client.credentials # NullCredentials)
        /\ client.credentials # NullCredentials =>
              client.stored = JsonStringify(client.credentials)
====
